---- MODULE Spec2Model ----
(***************************************************************************)
(* The multi-model request orchestration of services/gemini (per-model     *)
(* gate, cooldown, lane fallback, sticky model, safe-default wrappers), the *)
(* client polling loops of the page component, the AnchorFusionEngine and   *)
(* the label layout of services/overlay, as state machines.                 *)
(*                                                                         *)
(* Time is the millisecond clock the code reads (Date.now on the server,   *)
(* performance.now in the page).  The event loop is single threaded: one   *)
(* action is the code that runs between two awaits.                        *)
(***************************************************************************)
EXTENDS Integers, Sequences, FiniteSets, TLC

VARIABLES
    now,                \* the clock (Date.now() on the server, performance.now() in the page), ms
    gates,              \* const gates: Record<string, ModelGate>
    resolvedLaneModels, \* const resolvedLaneModels: Partial<Record<LaneName, string>>
    calls,              \* one record per analyze* invocation (its locals and position)
    released,           \* history: per model, the time of its last releaseGate
    lastSuccess,        \* history: per lane, the model of its latest successful attempt
    cameraReady,        \* page state cameraReady
    runningRef,         \* runningRef.current
    timers,             \* per lane, the deadline of the pending timer of lite/flash/proTimerRef
    pendingRef,         \* pendingRef.current
    abortRef,           \* per lane, the invocation whose AbortController lite/flash/proAbortRef holds
    requestFrameRef,    \* requestFrameRef.current
    appliedFrameRef,    \* appliedFrameRef.current
    geminiReadyAtRef,   \* geminiReadyAtRef.current
    proFirstCaptureAtRef,       \* proFirstCaptureAtRef.current
    proFirstRequestStartedRef,  \* proFirstRequestStartedRef.current
    loops,              \* the run*Loop invocations suspended at an await
    playings,           \* history: the number of "playing" events so far
    laneResultRef,      \* per lane, the frame id of lite/flash/proResultRef.current (0: null)
    fusionFrameId,      \* the frame id of the flash result last handed to fusionRef.updateAnchors
    dropped,            \* history: per lane, the frame ids of the answers discarded as stale
    engine,             \* AnchorFusionEngine: maxStaleMs, hardMaxStaleMs, reacquireDistanceSq
    bindings,           \* AnchorFusionEngine.bindings, in the insertion order of the Map
    projected,          \* what the latest call on the engine returned (<<>> for updateAnchors)
    lastCall,           \* history: the latest call on the engine and its arguments
    layoutCall,         \* the arguments of a layoutLabels call
    layoutResult,       \* what that call returned (<<>> before it returns, <<r>> after)
    sanitizeCall,       \* the lane and the raw model answer(s) handed to a sanitize*Result call
    sanitizeResult,     \* what the call(s) returned (<<>> before, one outcome per answer after)
    timeoutCall,        \* the lane, options and payloads of an analyze* call
    timeoutResult,      \* the per-attempt timeout(s) that call applies (<<>> before)
    manager,            \* AdaptiveQualityManager: fastRtts, depthRtts, frameTimes, tier
    reported,           \* history: the sample streams and how many reports of each were made
    requests,           \* the POSTs of the lite endpoint: body, position, response status
    modelCalls,         \* history: the requests for which analyzeLitePrimaryEmotion was called
    authDb,             \* the value stored under REDIS_KEY: activeInvites
    verifies,           \* the POSTs to the invite routes: body, position, locals, status
    attempts,           \* the rate limiter of the verify route: the times of the attempts of the address
    smoother,           \* PointSmoother: attackMs, releaseMs, maxStateAgeMs, states
    smoothed,           \* history: the last smooth call, what was stored before it, what it returned
    overlayRefs         \* flashResultRef, trackedFrameRef, and what drawOverlay drew last

serverVars == <<gates, resolvedLaneModels, calls, released, lastSuccess>>

pageVars == <<cameraReady, runningRef, timers, pendingRef, abortRef, requestFrameRef,
              appliedFrameRef, geminiReadyAtRef, proFirstCaptureAtRef,
              proFirstRequestStartedRef, loops, playings, laneResultRef, fusionFrameId,
              dropped>>

edgeVars == <<sanitizeCall, sanitizeResult, timeoutCall, timeoutResult, manager, reported,
              requests, modelCalls, authDb, verifies, attempts, smoother, smoothed, overlayRefs>>

overlayVars == <<engine, bindings, projected, lastCall, layoutCall, layoutResult, edgeVars>>

vars == <<now, serverVars, pageVars, overlayVars>>

Min(a, b) == IF a <= b THEN a ELSE b
Max(a, b) == IF a >= b THEN a ELSE b

Undefined == "undefined"

-----------------------------------------------------------------------------
(* Program constants, services/gemini *)

LITE_MODEL == "gemini-2.5-flash-lite"
FLASH_MODEL == "gemini-3-flash-preview"
PRO_MODEL == "gemini-3.1-pro-preview"

LITE_FALLBACK_MODELS == <<"gemini-2.5-flash", "gemini-3-flash-preview">>
FLASH_FALLBACK_MODELS == <<"gemini-3-flash-preview">>
PRO_FALLBACK_MODELS == <<"gemini-3.1-pro-preview">>

LITE_TIMEOUT_MS == 6500
FLASH_TIMEOUT_MS == 9000
PRO_TIMEOUT_MS == 120000

LITE_COOLDOWN_MS == 450
FLASH_COOLDOWN_MS == 3200
PRO_COOLDOWN_MS == 45000
GATE_POLL_MS == 24
GATE_MAX_WAIT_MS == 16000

LaneName == {"lite", "flash", "pro"}

Models == {"gemini-2.5-flash-lite", "gemini-2.5-flash",
           "gemini-3-flash-preview", "gemini-3.1-pro-preview"}

(* A model identifier as the regular expressions of cooldownForModel see it:
   its "-"-separated parts, in order. *)
NameParts(model) ==
    CASE model = "gemini-2.5-flash-lite" -> <<"gemini", "2.5", "flash", "lite">>
      [] model = "gemini-2.5-flash" -> <<"gemini", "2.5", "flash">>
      [] model = "gemini-3-flash-preview" -> <<"gemini", "3", "flash", "preview">>
      [] model = "gemini-3.1-pro-preview" -> <<"gemini", "3.1", "pro", "preview">>

(* /flash-lite/i : the parts "flash" and "lite" joined by one "-". *)
MatchesFlashLite(model) ==
    \E i \in 1..(Len(NameParts(model)) - 1) :
        NameParts(model)[i] = "flash" /\ NameParts(model)[i + 1] = "lite"

(* /pro/i : of the parts used here only "pro" holds the letters p-r-o
   ("preview" does not). *)
MatchesPro(model) == \E i \in 1..Len(NameParts(model)) : NameParts(model)[i] = "pro"

MatchesFlash(model) == \E i \in 1..Len(NameParts(model)) : NameParts(model)[i] = "flash"

cooldownForModel_AllFlash(model) == FLASH_COOLDOWN_MS

cooldownForModel(model) ==
    IF MatchesFlashLite(model) THEN LITE_COOLDOWN_MS
    ELSE IF MatchesPro(model) THEN PRO_COOLDOWN_MS
    ELSE IF MatchesFlash(model) THEN FLASH_COOLDOWN_MS
    ELSE FLASH_COOLDOWN_MS

(* getGate: the gate table with the model's gate created when absent. *)
getGate(gs, model) ==
    IF model \in DOMAIN gs THEN gs
    ELSE [m \in DOMAIN gs \cup {model} |->
            IF m = model THEN [inFlight |-> FALSE, lastCompletedAt |-> 0] ELSE gs[m]]

releaseGate_KeepInFlight(gs, model, t) ==
    [getGate(gs, model) EXCEPT ![model].lastCompletedAt = t]

releaseGate(gs, model, t) ==
    [getGate(gs, model) EXCEPT ![model] = [inFlight |-> FALSE, lastCompletedAt |-> t]]

(* One pass of the while (true) loop of acquireGate, run at time t by a call
   that entered acquireGate at startedAt: the new gate table, what the pass
   ended with, and for "sleep" the time the timer fires. *)
acquireGatePass_IgnoreInFlight(gs, model, startedAt, t) ==
    LET g0 == getGate(gs, model)
        elapsed == t - g0[model].lastCompletedAt
    IN  IF elapsed >= cooldownForModel(model)
        THEN [gates |-> [g0 EXCEPT ![model].inFlight = TRUE], out |-> "granted", wakeAt |-> t]
        ELSE [gates |-> g0, out |-> "sleep",
              wakeAt |-> t + Min(Max(cooldownForModel(model) - elapsed, GATE_POLL_MS), 400)]

acquireGatePass(gs, model, startedAt, t) ==
    LET g0 == getGate(gs, model)
        gate == g0[model]
        cooldown == cooldownForModel(model)
        elapsed == t - gate.lastCompletedAt
    IN  IF ~gate.inFlight
        THEN IF elapsed >= cooldown
             THEN [gates |-> [g0 EXCEPT ![model].inFlight = TRUE],
                   out |-> "granted", wakeAt |-> t]
             ELSE [gates |-> g0, out |-> "sleep",
                   wakeAt |-> t + Min(Max(cooldown - elapsed, GATE_POLL_MS), 400)]
        ELSE IF t - startedAt > GATE_MAX_WAIT_MS
             THEN [gates |-> g0, out |-> "timeout", wakeAt |-> t]
             ELSE [gates |-> g0, out |-> "sleep", wakeAt |-> t + GATE_POLL_MS]

(* computeTimeoutMs; base64Len is base64Image.length, and explicitTimeoutMs is 0
   when the caller supplies none (undefined, like every value that is not a
   finite number > 0, takes the payload branch).  Math.round of
   (length * 3) / 4 rounds halves up. *)
computeTimeoutMs_NoCap(explicitTimeoutMs, baseTimeoutMs, base64Len, capTimeoutMs) ==
    IF explicitTimeoutMs > 0 THEN explicitTimeoutMs
    ELSE LET approxBytes == (base64Len * 3 + 2) \div 4
         IN  IF approxBytes > 380000 THEN baseTimeoutMs + 2400
             ELSE IF approxBytes > 240000 THEN baseTimeoutMs + 1200
             ELSE baseTimeoutMs

computeTimeoutMs(explicitTimeoutMs, baseTimeoutMs, base64Len, capTimeoutMs) ==
    IF explicitTimeoutMs > 0 THEN explicitTimeoutMs
    ELSE LET approxBytes == (base64Len * 3 + 2) \div 4
         IN  IF approxBytes > 380000 THEN Min(baseTimeoutMs + 2400, capTimeoutMs)
             ELSE IF approxBytes > 240000 THEN Min(baseTimeoutMs + 1200, capTimeoutMs)
             ELSE baseTimeoutMs

(* The timeoutMs each analyze* function hands to generateWithLaneFallback. *)
laneTimeoutMs(lane, explicitTimeoutMs, base64Len, hasVideoClip) ==
    CASE lane = "lite" -> computeTimeoutMs(explicitTimeoutMs, LITE_TIMEOUT_MS, base64Len, 9000)
      [] lane = "flash" -> computeTimeoutMs(explicitTimeoutMs, FLASH_TIMEOUT_MS, base64Len, 16000)
      [] lane = "pro" ->
            LET baseTimeoutMs == computeTimeoutMs(explicitTimeoutMs, PRO_TIMEOUT_MS, base64Len, 58000)
            IN  IF hasVideoClip THEN Min(baseTimeoutMs + 10000, 72000) ELSE baseTimeoutMs

preferredModel(lane) ==
    CASE lane = "lite" -> LITE_MODEL [] lane = "flash" -> FLASH_MODEL [] lane = "pro" -> PRO_MODEL

fallbackModels_LiteToPro(lane) ==
    CASE lane = "lite" -> <<"gemini-2.5-flash", PRO_MODEL>>
      [] lane = "flash" -> FLASH_FALLBACK_MODELS
      [] lane = "pro" -> PRO_FALLBACK_MODELS

fallbackModels(lane) ==
    CASE lane = "lite" -> LITE_FALLBACK_MODELS
      [] lane = "flash" -> FLASH_FALLBACK_MODELS
      [] lane = "pro" -> PRO_FALLBACK_MODELS

(* [...new Set(models)]: the first occurrence of each element, in order. *)
RECURSIVE Dedupe(_)
Dedupe(s) ==
    IF s = <<>> THEN <<>>
    ELSE LET front == Dedupe(SubSeq(s, 1, Len(s) - 1))
             last == s[Len(s)]
         IN  IF \E i \in 1..Len(front) : front[i] = last THEN front ELSE Append(front, last)

candidateModels_PreferredFirst(resolved, preferred, fallbacks) ==
    Dedupe(<<preferred>> \o fallbacks \o (IF resolved = Undefined THEN <<>> ELSE <<resolved>>))

candidateModels_NoDedupe(resolved, preferred, fallbacks) ==
    (IF resolved = Undefined THEN <<>> ELSE <<resolved>>) \o <<preferred>> \o fallbacks

(* candidateModels(lane, preferred, fallbacks), with resolvedLaneModels[lane]
   passed as resolved. *)
candidateModels(resolved, preferred, fallbacks) ==
    Dedupe((IF resolved = Undefined THEN <<>> ELSE <<resolved>>) \o <<preferred>> \o fallbacks)

-----------------------------------------------------------------------------
(* Errors.  An error is what shouldFallbackModelError inspects: its numeric
   status (0 when it has none), and which of the phrases the regular
   expressions look for occur in its lower-cased message and code. *)

NoError == [status |-> 0, message |-> {}, code |-> {}, kind |-> "none"]

(* withTimeout: new Error(`${label} timed out after ${timeoutMs}ms`); none of the
   three labels holds a phrase the classifier looks for. *)
TimeoutError == [status |-> 0, message |-> {"timed out"}, code |-> {}, kind |-> "timeout"]

(* acquireGate: new Error(`Model ${model} gate wait timed out`). *)
GateTimeoutError == [status |-> 0, message |-> {"model", "timed out"}, code |-> {}, kind |-> "gate"]

(* What the backend call can reject with. *)
NotFoundError == [status |-> 404, message |-> {"not found"}, code |-> {}, kind |-> "backend"]
UnsupportedError == [status |-> 400, message |-> {"invalid"}, code |-> {}, kind |-> "backend"]
QuotaError == [status |-> 429, message |-> {"quota"}, code |-> {"resource_exhausted"}, kind |-> "backend"]
NetworkError == [status |-> 0, message |-> {"fetch failed"}, code |-> {}, kind |-> "backend"]

ErrorKinds == {NotFoundError, UnsupportedError, QuotaError, NetworkError}

(* The rejections the backend produces in the runs explored: one the classifier
   takes for an unavailable model, one it does not. *)
BackendErrors == {NotFoundError, QuotaError}

shouldFallbackModelError_Always(error) == TRUE

shouldFallbackModelError(error) ==
    IF error = NoError THEN FALSE
    ELSE \/ error.status = 404
         \/ /\ error.status = 400
            /\ error.message \cap {"model", "unknown", "unsupported", "not found", "invalid"} # {}
         \/ error.message \cap {"model", "unknown", "unsupported", "not found",
                                "does not exist", "invalid model"} # {}
         \/ error.code \cap {"not_found", "model_not_found", "unsupported"} # {}

-----------------------------------------------------------------------------
(* An optional value (options.frameId): <<>> when undefined, <<v>> otherwise. *)
OrElse(opt, dflt) == IF opt = <<>> THEN dflt ELSE opt[1]

(* toDefaultLiteResult / toDefaultFlashResult / toDefaultDepthResult, reduced
   to what the three shapes share: frameId is options.frameId ?? 0, the
   confidence is 0, every list is empty (items counts their entries), and
   faceDetected is false where the shape has the field. *)
toDefaultResult(lane, frameId, model) ==
    [model |-> model,
     frameId |-> OrElse(frameId, 0),
     faceDetected |-> IF lane = "pro" THEN "absent" ELSE "false",
     confidence |-> 0,
     items |-> 0]

(* sanitize*Result(safeJsonParse(text), options, model): the fields that do
   not depend on the response text, and the text. *)
toSanitizedResult(lane, frameId, model, text) ==
    [model |-> model, frameId |-> OrElse(frameId, 0), parsedFrom |-> text]

-----------------------------------------------------------------------------
(* Bounds of the model *)

(* The number of concurrent analyze* invocations of a run; a burst has one more. *)
MaxCalls == 2

(* Date.now() when the first request arrives. *)
StartTime == 100000

(* The time between the arrival of one request and of the next. *)
ArrivalGap == 1000
ArrivalGaps == {0, ArrivalGap}

(* base64Image.length of the requests of a run: a small frame, or one of more
   than 380 000 bytes. *)
SmallImageLength == 1000
LargeImageLength == 520000
ImageLengths == {SmallImageLength, LargeImageLength}

(* How long the backend takes to answer one generateContent call: promptly, or
   longer than every per-attempt timeout. *)
PromptLatency == 300
HangLatency == 200000
Latencies == {PromptLatency, HangLatency}

-----------------------------------------------------------------------------
(* The state of one analyze* invocation. *)

IdleCall(lane, frameId, imageLen, hasVideoClip, arriveAt) ==
    [pc |-> "idle",
     lane |-> lane, frameId |-> frameId, imageLen |-> imageLen,
     hasVideoClip |-> hasVideoClip, arriveAt |-> arriveAt,
     timeoutMs |-> 0,
     models |-> <<>>,       \* const models = candidateModels(...)
     idx |-> 0,             \* position of the for loop in models
     startedAt |-> 0,       \* acquireGate: const startedAt = Date.now()
     wakeAt |-> 0,          \* when the pending sleep() timer fires
     grantedAt |-> 0,
     respAt |-> 0,          \* when the backend answers the pending generateContent
     lastError |-> NoError,
     result |-> <<>>,
     \* history
     sticky |-> Undefined,  \* the model of the lane's latest success when the call began
     attempts |-> <<>>,     \* the models generateContent was called with
     sent |-> <<>>,         \* the generateContent requests: model, when the backend answers
     errors |-> <<>>,       \* what each of those attempts ended with
     passWait |-> 0,        \* Date.now() - startedAt at the latest acquireGate pass
     gateTimeouts |-> 0,    \* acquireGate passes that threw the gate-wait error
     nGrants |-> 0,
     nReleases |-> 0]

CurrentModel(rec) == rec.models[rec.idx]

(* generateWithLaneFallback has settled (pc is "resolved" or "threw"): the
   timers and clock readings of its locals are out of scope. *)
Settled(rec, pc) ==
    [rec EXCEPT !.pc = pc, !.startedAt = 0, !.wakeAt = 0, !.grantedAt = 0,
                !.respAt = 0, !.passWait = 0]

(* await acquireGate(model) rejected: the await is outside the try block, so
   the rejection leaves generateWithLaneFallback. *)
acquireRejected_NextCandidate(rec, t) ==
    IF rec.idx < Len(rec.models)
    THEN [rec EXCEPT !.idx = rec.idx + 1, !.pc = "sleeping", !.wakeAt = t, !.startedAt = t,
                     !.errors = Append(rec.errors, GateTimeoutError)]
    ELSE [Settled(rec, "threw") EXCEPT !.lastError = GateTimeoutError]

acquireRejected(rec, t) ==
    [Settled(rec, "threw") EXCEPT !.lastError = GateTimeoutError]

(* The call after one acquireGate pass at time t. *)
afterPass(rec, pass, t) ==
    LET r == [rec EXCEPT !.passWait = t - rec.startedAt]
    IN  CASE pass.out = "granted" ->
               [r EXCEPT !.pc = "granted", !.grantedAt = t, !.nGrants = r.nGrants + 1]
          [] pass.out = "sleep" -> [r EXCEPT !.pc = "sleeping", !.wakeAt = pass.wakeAt]
          [] pass.out = "timeout" ->
               acquireRejected([r EXCEPT !.gateTimeouts = r.gateTimeouts + 1], t)

(* The catch block of generateWithLaneFallback: what the loop does after an
   attempt that ended with error (NoError: the attempt returned). *)
attemptVerdict_AlwaysContinue(error) ==
    IF error = NoError THEN "return" ELSE "continue"

attemptVerdict(error) ==
    IF error = NoError THEN "return"
    ELSE IF shouldFallbackModelError(error) THEN "continue"
    ELSE "throw"

(* resolvedLaneModels[args.lane] = model, on success only. *)
rememberModel_OnEveryAttempt(resolved, lane, model, error) ==
    [resolved EXCEPT ![lane] = model]

rememberModel_LiteOnly(resolved, lane, model, error) ==
    IF error = NoError THEN [resolved EXCEPT !["lite"] = model] ELSE resolved

rememberModel(resolved, lane, model, error) ==
    IF error = NoError THEN [resolved EXCEPT ![lane] = model] ELSE resolved

(* The catch block of the analyze* functions. *)
analyzeCatch_Rethrow(rec, resolved) ==
    [rec EXCEPT !.pc = "rejected"]

analyzeCatch_NoFrameId(rec, resolved) ==
    [rec EXCEPT !.pc = "returned",
                !.result = <<toDefaultResult(rec.lane, <<>>,
                     IF resolved[rec.lane] = Undefined THEN preferredModel(rec.lane)
                     ELSE resolved[rec.lane])>>]

analyzeCatch(rec, resolved) ==
    [rec EXCEPT !.pc = "returned",
                !.result = <<toDefaultResult(rec.lane, rec.frameId,
                     IF resolved[rec.lane] = Undefined THEN preferredModel(rec.lane)
                     ELSE resolved[rec.lane])>>]

-----------------------------------------------------------------------------
(* The server: concurrent analyze* invocations on one event loop. *)

Calls == DOMAIN calls

(* The requests of a run: n of them, of the given lanes and frame size, the
   first arriving at StartTime and each next one with or ArrivalGap after the
   one before; request c carries frame id c and no video clip. *)
Workload(n, lanes, imageLen) ==
    {f \in [1..n -> {IdleCall(lane, <<c>>, imageLen, hasVideoClip, StartTime + k * ArrivalGap) :
                        lane \in lanes, c \in 1..n, hasVideoClip \in {FALSE}, k \in 0..(n - 1)}] :
        /\ f[1].arriveAt = StartTime
        /\ \A c \in 1..n : f[c].frameId = <<c>>
        /\ \A c \in 2..n : f[c].arriveAt - f[c - 1].arriveAt \in ArrivalGaps}

(* new AnchorFusionEngine(options): an absent option is <<>>. *)
AnchorFusionEngine(options) ==
    LET maxStaleMs == OrElse(options.maxStaleMs, 4500)
        reacquireDistance == OrElse(options.reacquireDistance, 130)
    IN  [maxStaleMs |-> maxStaleMs,
         hardMaxStaleMs |-> Max(maxStaleMs, OrElse(options.hardMaxStaleMs, 30000)),
         reacquireDistanceSq |-> reacquireDistance * reacquireDistance]

(* const fusionRef = useRef(new AnchorFusionEngine({ maxStaleMs: 6000,
   hardMaxStaleMs: 30000 })) *)
fusionRef ==
    AnchorFusionEngine([maxStaleMs |-> <<6000>>, hardMaxStaleMs |-> <<30000>>,
                        reacquireDistance |-> <<>>])

NoFrame == [null |-> TRUE]

NoCall == [op |-> "none", anchors |-> <<>>, frame |-> NoFrame, preserveStale |-> FALSE,
           at |-> 0, repeated |-> FALSE]

(* No sanitizer call and no timeout computation is under way. *)
InitPure ==
    /\ sanitizeCall = <<>>
    /\ sanitizeResult = <<>>
    /\ timeoutCall = <<>>
    /\ timeoutResult = <<>>

(* class AdaptiveQualityManager: the field initialisers. *)
AdaptiveQualityManager ==
    [fastRtts |-> <<>>, depthRtts |-> <<>>, frameTimes |-> <<>>, tier |-> "high"]

InitQuality ==
    /\ manager = AdaptiveQualityManager
    /\ reported = <<>>

(* No request has reached the lane endpoint or the invite verification, no
   invite is stored. *)
InitRoutes ==
    /\ requests = <<>>
    /\ modelCalls = {}
    /\ authDb = [activeInvites |-> <<>>]
    /\ verifies = <<>>
    /\ attempts = <<>>

(* new PointSmoother(options): <<>> is an option left out. *)
PointSmoother(options) ==
    [attackMs |-> OrElse(options.attackMs, 65),
     releaseMs |-> OrElse(options.releaseMs, 130),
     maxStateAgeMs |-> OrElse(options.maxStateAgeMs, 6000),
     states |-> <<>>]

(* smootherRef of the page. *)
smootherRef ==
    PointSmoother([attackMs |-> <<48>>, releaseMs |-> <<154>>, maxStateAgeMs |-> <<4600>>])

InitSmoother ==
    /\ smoother = smootherRef
    /\ smoothed = <<>>

(* flashResultRef = useRef(null), trackedFrameRef = useRef(null); nothing drawn
   and no answer applied yet. *)
InitOverlayRefs ==
    overlayRefs = [flashResultRef |-> <<>>, trackedFrameRef |-> NoFrame,
                   visibleAnchors |-> <<>>, applied |-> <<>>]

InitEdge ==
    /\ InitPure
    /\ InitQuality
    /\ InitRoutes
    /\ InitSmoother
    /\ InitOverlayRefs

(* The engine of the page before the first tracking frame and the first
   answer: no bindings, no layout computed. *)
InitEngine ==
    /\ engine = fusionRef
    /\ bindings = <<>>
    /\ projected = <<>>
    /\ lastCall = NoCall
    /\ layoutCall = <<>>
    /\ layoutResult = <<>>

InitOverlay ==
    /\ InitEngine
    /\ InitEdge

(* The page before the camera plays: no loop runs, every ref holds its
   initial value. *)
InitPage ==
    /\ cameraReady = FALSE
    /\ runningRef = FALSE
    /\ timers = [lane \in LaneName |-> <<>>]
    /\ pendingRef = [lane \in LaneName |-> FALSE]
    /\ abortRef = [lane \in LaneName |-> <<>>]
    /\ requestFrameRef = [lane \in LaneName |-> 0]
    /\ appliedFrameRef = [lane \in LaneName |-> 0]
    /\ geminiReadyAtRef = 0
    /\ proFirstCaptureAtRef = 0
    /\ proFirstRequestStartedRef = FALSE
    /\ loops = {}
    /\ playings = 0
    /\ laneResultRef = [lane \in LaneName |-> 0]
    /\ fusionFrameId = 0
    /\ dropped = [lane \in LaneName |-> {}]

InitServer ==
    /\ now = StartTime
    /\ gates = <<>>
    /\ resolvedLaneModels = [lane \in LaneName |-> Undefined]
    /\ released = [m \in Models |-> <<>>]
    /\ lastSuccess = [lane \in LaneName |-> Undefined]

Init ==
    /\ InitServer
    /\ InitPage
    /\ InitOverlay
    /\ calls \in UNION {Workload(MaxCalls, LaneName, imageLen) : imageLen \in ImageLengths}

(* A burst of three fast-lane requests carrying large frames. *)
InitBurst ==
    /\ InitServer
    /\ InitPage
    /\ InitOverlay
    /\ calls \in Workload(Cardinality({"first", "second", "third"}), {"lite"}, LargeImageLength)

(* analyze*: computeTimeoutMs, then generateWithLaneFallback up to its first
   await: candidateModels and the first pass of acquireGate(models[0]). *)
StartCall(c) ==
    /\ calls[c].pc = "idle"
    /\ calls[c].arriveAt = now
    /\ LET rec == calls[c]
           r1 == [rec EXCEPT
                    !.timeoutMs = laneTimeoutMs(rec.lane, 0, rec.imageLen, rec.hasVideoClip),
                    !.models = candidateModels(resolvedLaneModels[rec.lane],
                                               preferredModel(rec.lane), fallbackModels(rec.lane)),
                    !.sticky = lastSuccess[rec.lane],
                    !.idx = 1,
                    !.startedAt = now]
           pass == acquireGatePass(gates, CurrentModel(r1), now, now)
       IN  /\ gates' = pass.gates
           /\ calls' = [calls EXCEPT ![c] = afterPass(r1, pass, now)]
    /\ UNCHANGED <<now, resolvedLaneModels, released, lastSuccess, pageVars, overlayVars>>

(* acquireGate: the sleep() timer fires and the loop makes its next pass. *)
AcquireWake(c) ==
    /\ calls[c].pc = "sleeping"
    /\ calls[c].wakeAt = now
    /\ LET pass == acquireGatePass(gates, CurrentModel(calls[c]), calls[c].startedAt, now)
       IN  /\ gates' = pass.gates
           /\ calls' = [calls EXCEPT ![c] = afterPass(calls[c], pass, now)]
    /\ UNCHANGED <<now, resolvedLaneModels, released, lastSuccess, pageVars, overlayVars>>

(* acquireGate returned: generateContent is called under withTimeout. *)
IssueAttempt(c) ==
    /\ calls[c].pc = "granted"
    /\ \E latency \in Latencies :
          calls' = [calls EXCEPT ![c].pc = "attempt",
                                 ![c].respAt = now + latency,
                                 ![c].attempts = Append(calls[c].attempts, CurrentModel(calls[c])),
                                 ![c].sent = Append(calls[c].sent,
                                                    [model |-> CurrentModel(calls[c]),
                                                     respAt |-> now + latency])]
    /\ UNCHANGED <<now, gates, resolvedLaneModels, released, lastSuccess, pageVars, overlayVars>>

TimeoutAt(rec) == rec.grantedAt + rec.timeoutMs
SettleAt(rec) == Min(rec.respAt, TimeoutAt(rec))

(* What the race of withTimeout can end with at SettleAt. *)
AttemptOutcomes(rec) ==
    (IF rec.respAt <= TimeoutAt(rec) THEN {NoError} \cup BackendErrors ELSE {})
    \cup (IF TimeoutAt(rec) <= rec.respAt THEN {TimeoutError} ELSE {})

(* The attempt settles: the try / catch / finally of the loop body and, when
   the loop continues, the first pass of acquireGate for the next model. *)
SettleAttempt(c) ==
    /\ calls[c].pc = "attempt"
    /\ SettleAt(calls[c]) = now
    /\ \E error \in AttemptOutcomes(calls[c]) :
          LET rec == calls[c]
              model == CurrentModel(rec)
              verdict == attemptVerdict(error)
              gs1 == releaseGate(gates, model, now)
              r1 == [rec EXCEPT !.nReleases = rec.nReleases + 1,
                                !.errors = Append(rec.errors, error),
                                !.lastError = IF error = NoError THEN rec.lastError ELSE error]
              r2 == [r1 EXCEPT !.idx = rec.idx + 1, !.startedAt = now]
              pass == acquireGatePass(gs1, CurrentModel(r2), now, now)
          IN  /\ resolvedLaneModels' = rememberModel(resolvedLaneModels, rec.lane, model, error)
              /\ released' = [released EXCEPT ![model] = <<now>>]
              /\ lastSuccess' = IF error = NoError THEN [lastSuccess EXCEPT ![rec.lane] = model]
                                ELSE lastSuccess
              /\ CASE verdict = "return" ->
                        /\ gates' = gs1
                        /\ calls' = [calls EXCEPT ![c] = Settled(r1, "resolved")]
                   [] verdict = "throw" ->
                        /\ gates' = gs1
                        /\ calls' = [calls EXCEPT ![c] = Settled(r1, "threw")]
                   [] verdict = "continue" /\ rec.idx = Len(rec.models) ->
                        \* the loop ends: throw lastError
                        /\ gates' = gs1
                        /\ calls' = [calls EXCEPT ![c] = Settled(r1, "threw")]
                   [] verdict = "continue" /\ rec.idx < Len(rec.models) ->
                        /\ gates' = pass.gates
                        /\ calls' = [calls EXCEPT ![c] = afterPass(r2, pass, now)]
    /\ UNCHANGED <<now, pageVars, overlayVars>>

(* generateWithLaneFallback returned {text, model}: the analyze* function
   returns the sanitized result. *)
AnalyzeReturn(c) ==
    /\ calls[c].pc = "resolved"
    /\ calls' = [calls EXCEPT ![c].pc = "returned",
                              ![c].result = <<toSanitizedResult(calls[c].lane, calls[c].frameId,
                                                CurrentModel(calls[c]), "text")>>]
    /\ UNCHANGED <<now, gates, resolvedLaneModels, released, lastSuccess, pageVars, overlayVars>>

(* generateWithLaneFallback threw: the analyze* function catches. *)
AnalyzeCatch(c) ==
    /\ calls[c].pc = "threw"
    /\ calls' = [calls EXCEPT ![c] = analyzeCatch(calls[c], resolvedLaneModels)]
    /\ UNCHANGED <<now, gates, resolvedLaneModels, released, lastSuccess, pageVars, overlayVars>>

Due(rec) ==
    \/ rec.pc = "idle" /\ rec.arriveAt = now
    \/ rec.pc = "sleeping" /\ rec.wakeAt = now
    \/ rec.pc = "attempt" /\ SettleAt(rec) = now
    \/ rec.pc \in {"granted", "resolved", "threw"}

Deadlines ==
    {calls[c].arriveAt : c \in {d \in Calls : calls[d].pc = "idle"}}
    \cup {calls[c].wakeAt : c \in {d \in Calls : calls[d].pc = "sleeping"}}
    \cup {SettleAt(calls[c]) : c \in {d \in Calls : calls[d].pc = "attempt"}}

(* Nothing is runnable: the clock moves to the next timer or response. *)
Tick ==
    /\ \A c \in Calls : ~Due(calls[c])
    /\ Deadlines # {}
    /\ now' = CHOOSE t \in Deadlines : \A u \in Deadlines : t <= u
    /\ UNCHANGED <<serverVars, pageVars, overlayVars>>

Next ==
    \/ \E c \in Calls : StartCall(c)
    \/ \E c \in Calls : AcquireWake(c)
    \/ \E c \in Calls : IssueAttempt(c)
    \/ \E c \in Calls : SettleAttempt(c)
    \/ \E c \in Calls : AnalyzeReturn(c)
    \/ \E c \in Calls : AnalyzeCatch(c)
    \/ Tick

Spec == Init /\ [][Next]_vars

SpecBurst == InitBurst /\ [][Next]_vars

-----------------------------------------------------------------------------
(* The page component: the polling loops of the three lanes. *)

LANE_INTERVAL_MS == [lite |-> 1200, flash |-> 2800, pro |-> 50000]
INITIAL_GEMINI_COOLDOWN_MS == 2000
PRO_FIRST_PRE_CAPTURE_WAIT_MS == 5000
PRO_VIDEO_CLIP_MS == 5000
PRO_EMPTY_RESULT_RETRY_MS == 3500

(* Bounds of the page runs. *)
MaxPlayings == 2        \* "playing" events of a run
PageHorizon == 17100    \* the clock stops this long after StartTime
EncodeDelay == 40       \* recorder stop and base64 encoding of the clip
SlowLatency == 7000     \* the time /api/analyze/* takes to answer
FetchLatencies == {SlowLatency}
(* captureProVideoClip records a clip: the stream is live while the camera
   plays and the browser has a MediaRecorder. *)
ClipRecorded == {TRUE}
(* /api/analyze/depth answers slowly, or at once. *)
ProFetchLatencies == {PromptLatency, SlowLatency}
(* captureFrame returns a frame: the video has its dimensions once it plays. *)
CapturedFrames == {TRUE}
FetchOutcomes == {"usable", "empty", "notOk", "error"}

(* A run*Loop invocation suspended at an await.  born is the time its timer
   fired and names its AbortController. *)
LoopAt(lane, born, pc, frameId, startedAt, dueAt, isFirst) ==
    [lane |-> lane, born |-> born, pc |-> pc, frameId |-> frameId,
     startedAt |-> startedAt, dueAt |-> dueAt, isFirst |-> isFirst]

(* Promise reactions are queued: they run before any timer or event. *)
Microtasks == \E i \in loops : i.pc = "aborted"

scheduleLane(ts, running, lane, delayMs, t) ==
    IF ~running THEN ts
    ELSE [ts EXCEPT ![lane] = <<t + Max(0, delayMs)>>]

scheduleLaneFromCycle(ts, running, lane, cycleStartedAt, minDelayMs, t) ==
    LET elapsed == Max(0, t - cycleStartedAt)
        remaining == Max(0, LANE_INTERVAL_MS[lane] - elapsed)
    IN  scheduleLane(ts, running, lane, Max(minDelayMs, remaining), t)

warmupRemainingMs(t) == Max(0, geminiReadyAtRef - t)

(* stopLoops: the controllers the abort refs hold are aborted. *)
stopLoops(ls, refs) ==
    {IF i.pc = "fetching" /\ refs[i.lane] = <<i.born>> THEN [i EXCEPT !.pc = "aborted"] ELSE i :
        i \in ls}

(* The video element plays: onPlaying, and the loops effect when cameraReady
   turns true. *)
OnPlaying ==
    /\ ~Microtasks
    /\ playings < MaxPlayings
    /\ playings' = playings + 1
    /\ geminiReadyAtRef' = now + INITIAL_GEMINI_COOLDOWN_MS
    /\ proFirstCaptureAtRef' = now + PRO_FIRST_PRE_CAPTURE_WAIT_MS
    /\ proFirstRequestStartedRef' = FALSE
    /\ cameraReady' = TRUE
    /\ IF cameraReady
       THEN UNCHANGED <<runningRef, timers>>
       ELSE /\ runningRef' = TRUE
            /\ timers' = scheduleLane(
                             scheduleLane(
                                 scheduleLane(timers, TRUE, "lite", 0, now),
                                 TRUE, "flash", 420, now),
                             TRUE, "pro", PRO_FIRST_PRE_CAPTURE_WAIT_MS, now)
    /\ UNCHANGED <<now, overlayVars, serverVars, pendingRef, abortRef, requestFrameRef, appliedFrameRef, loops,
                   laneResultRef, fusionFrameId, dropped>>

(* The video element pauses or empties: onEnded, and the cleanup of the loops
   effect (runningRef off, stopLoops). *)
OnEnded ==
    /\ ~Microtasks
    /\ cameraReady
    /\ cameraReady' = FALSE
    /\ geminiReadyAtRef' = 0
    /\ proFirstCaptureAtRef' = 0
    /\ proFirstRequestStartedRef' = FALSE
    /\ runningRef' = FALSE
    /\ timers' = [lane \in LaneName |-> <<>>]
    /\ loops' = stopLoops(loops, abortRef)
    /\ abortRef' = [lane \in LaneName |-> <<>>]
    /\ pendingRef' = [lane \in LaneName |-> FALSE]
    /\ UNCHANGED <<now, overlayVars, serverVars, requestFrameRef, appliedFrameRef, playings,
                   laneResultRef, fusionFrameId, dropped>>

(* runLiteLoop / runFlashLoop up to the await of fetch. *)
runStillLoop(lane, warmupPadMs) ==
    /\ ~Microtasks
    /\ timers[lane] = <<now>>
    /\ \E hasPayload \in CapturedFrames, latency \in FetchLatencies :
          LET ts == [timers EXCEPT ![lane] = <<>>]
              warmupMs == warmupRemainingMs(now)
              frameId == requestFrameRef[lane] + 1
          IN  IF ~runningRef
              THEN /\ timers' = ts
                   /\ UNCHANGED <<pendingRef, requestFrameRef, abortRef, loops>>
              ELSE IF pendingRef[lane]
              THEN /\ timers' = scheduleLane(ts, runningRef, lane, LANE_INTERVAL_MS[lane], now)
                   /\ UNCHANGED <<pendingRef, requestFrameRef, abortRef, loops>>
              ELSE IF warmupMs > 0
              THEN /\ timers' = scheduleLane(ts, runningRef, lane, warmupMs + warmupPadMs, now)
                   /\ UNCHANGED <<pendingRef, requestFrameRef, abortRef, loops>>
              ELSE IF ~hasPayload
              THEN /\ timers' = scheduleLane(ts, runningRef, lane, LANE_INTERVAL_MS[lane], now)
                   /\ UNCHANGED <<pendingRef, requestFrameRef, abortRef, loops>>
              ELSE /\ timers' = ts
                   /\ pendingRef' = [pendingRef EXCEPT ![lane] = TRUE]
                   /\ requestFrameRef' = [requestFrameRef EXCEPT ![lane] = frameId]
                   /\ abortRef' = [abortRef EXCEPT ![lane] = <<now>>]
                   /\ loops' = loops \cup
                                 {LoopAt(lane, now, "fetching", frameId, now, now + latency, FALSE)}
    /\ UNCHANGED <<now, overlayVars, serverVars, cameraReady, runningRef, appliedFrameRef, geminiReadyAtRef,
                   proFirstCaptureAtRef, proFirstRequestStartedRef, playings,
                   laneResultRef, fusionFrameId, dropped>>

RunLiteLoop == runStillLoop("lite", 24)

RunFlashLoop == runStillLoop("flash", 48)

(* runProLoop up to the await of captureProVideoClip; when no clip can be
   recorded the await resumes at once and the request is sent. *)
RunProLoop ==
    /\ ~Microtasks
    /\ timers["pro"] = <<now>>
    /\ \E faceDetected \in BOOLEAN, hasPayload \in CapturedFrames, recording \in ClipRecorded,
          latency \in ProFetchLatencies :
          LET ts == [timers EXCEPT !["pro"] = <<>>]
              isFirstProRequest == ~proFirstRequestStartedRef
              preCaptureRemainingMs == Max(0, proFirstCaptureAtRef - now)
              warmupMs == warmupRemainingMs(now)
              frameId == requestFrameRef["pro"] + 1
          IN  IF ~runningRef
              THEN /\ timers' = ts
                   /\ UNCHANGED <<pendingRef, requestFrameRef, abortRef, loops,
                                  proFirstRequestStartedRef>>
              ELSE IF pendingRef["pro"]
              THEN /\ timers' = scheduleLane(ts, runningRef, "pro", LANE_INTERVAL_MS["pro"], now)
                   /\ UNCHANGED <<pendingRef, requestFrameRef, abortRef, loops,
                                  proFirstRequestStartedRef>>
              ELSE IF ~faceDetected
              THEN /\ timers' = scheduleLane(ts, runningRef, "pro",
                                    IF isFirstProRequest THEN 700 ELSE LANE_INTERVAL_MS["pro"], now)
                   /\ UNCHANGED <<pendingRef, requestFrameRef, abortRef, loops,
                                  proFirstRequestStartedRef>>
              ELSE IF isFirstProRequest /\ preCaptureRemainingMs > 0
              THEN /\ timers' = scheduleLane(ts, runningRef, "pro", preCaptureRemainingMs + 24, now)
                   /\ UNCHANGED <<pendingRef, requestFrameRef, abortRef, loops,
                                  proFirstRequestStartedRef>>
              ELSE IF warmupMs > 0
              THEN /\ timers' = scheduleLane(ts, runningRef, "pro", warmupMs + 64, now)
                   /\ UNCHANGED <<pendingRef, requestFrameRef, abortRef, loops,
                                  proFirstRequestStartedRef>>
              ELSE IF ~hasPayload
              THEN /\ timers' = scheduleLane(ts, runningRef, "pro", LANE_INTERVAL_MS["pro"], now)
                   /\ UNCHANGED <<pendingRef, requestFrameRef, abortRef, loops,
                                  proFirstRequestStartedRef>>
              ELSE IF recording
              THEN /\ timers' = ts
                   /\ loops' = loops \cup
                                 {LoopAt("pro", now, "capturing", 0, 0,
                                         now + PRO_VIDEO_CLIP_MS + EncodeDelay, isFirstProRequest)}
                   /\ UNCHANGED <<pendingRef, requestFrameRef, abortRef, proFirstRequestStartedRef>>
              ELSE /\ timers' = ts
                   /\ pendingRef' = [pendingRef EXCEPT !["pro"] = TRUE]
                   /\ proFirstRequestStartedRef' = TRUE
                   /\ requestFrameRef' = [requestFrameRef EXCEPT !["pro"] = frameId]
                   /\ abortRef' = [abortRef EXCEPT !["pro"] = <<now>>]
                   /\ loops' = loops \cup
                                 {LoopAt("pro", now, "fetching", frameId, now, now + latency,
                                         isFirstProRequest)}
    /\ UNCHANGED <<now, overlayVars, serverVars, cameraReady, runningRef, appliedFrameRef, geminiReadyAtRef,
                   proFirstCaptureAtRef, playings, laneResultRef, fusionFrameId, dropped>>

(* runProLoop from the return of captureProVideoClip to the await of fetch. *)
ProClipCaptured(i) ==
    /\ ~Microtasks
    /\ i.pc = "capturing"
    /\ i.dueAt = now
    /\ \E latency \in ProFetchLatencies :
          LET frameId == requestFrameRef["pro"] + 1
          IN  IF ~runningRef
              THEN /\ loops' = loops \ {i}
                   /\ UNCHANGED <<pendingRef, requestFrameRef, abortRef, proFirstRequestStartedRef>>
              ELSE /\ pendingRef' = [pendingRef EXCEPT !["pro"] = TRUE]
                   /\ proFirstRequestStartedRef' = TRUE
                   /\ requestFrameRef' = [requestFrameRef EXCEPT !["pro"] = frameId]
                   /\ abortRef' = [abortRef EXCEPT !["pro"] = <<i.born>>]
                   /\ loops' = (loops \ {i}) \cup
                                 {[i EXCEPT !.pc = "fetching", !.frameId = frameId,
                                            !.startedAt = now, !.dueAt = now + latency]}
    /\ UNCHANGED <<now, overlayVars, serverVars, cameraReady, runningRef, timers, appliedFrameRef,
                   geminiReadyAtRef, proFirstCaptureAtRef, playings,
                   laneResultRef, fusionFrameId, dropped>>

(* The delay the pro loop's try / catch leaves in retryDelayOverrideMs. *)
retryDelayOverrideMs(i, outcome, stale) ==
    IF i.lane # "pro" THEN <<>>
    ELSE CASE outcome \in {"notOk", "error", "aborted"} -> <<PRO_EMPTY_RESULT_RETRY_MS>>
           [] outcome \in {"usable", "empty"} /\ stale -> <<>>
           [] outcome = "empty" /\ ~stale ->
                  <<IF i.isFirst THEN 2200 ELSE PRO_EMPTY_RESULT_RETRY_MS>>
           [] OTHER -> <<>>

minCycleDelayMs(lane) ==
    CASE lane = "lite" -> 24 [] lane = "flash" -> 36 [] lane = "pro" -> 200

(* The finally block of a loop: the timers it leaves. *)
loopFinally(i, retry, t) ==
    IF retry # <<>> THEN scheduleLane(timers, runningRef, i.lane, retry[1], t)
    ELSE scheduleLaneFromCycle(timers, runningRef, i.lane, i.startedAt, minCycleDelayMs(i.lane), t)

(* An answer with this frame id is discarded: `if (!receivedFrameId ||
   receivedFrameId < appliedFrameRef.current[lane]) return`. *)
responseStale_Never(receivedFrameId, appliedFrameId) == receivedFrameId = 0

responseStale(receivedFrameId, appliedFrameId) ==
    receivedFrameId = 0 \/ receivedFrameId < appliedFrameId

(* The frame id of the result the lane holds after an applied answer: the
   lite and flash results carry the answer's frame id, the pro lane keeps
   its earlier result when the answer has no usable insights. *)
appliedResult(lane, outcome, receivedFrameId, previous) ==
    IF lane = "pro" /\ outcome = "empty" /\ previous # 0 THEN previous
    ELSE receivedFrameId

(* fetch settles (an answer, or a network error): the rest of the try, the
   catch and the finally of the loop. *)
FetchSettles(i) ==
    /\ ~Microtasks
    /\ i.pc = "fetching"
    /\ i.dueAt = now
    /\ \E outcome \in FetchOutcomes :
          LET receivedFrameId == i.frameId
              answered == outcome \in {"usable", "empty"}
              stale == responseStale(receivedFrameId, appliedFrameRef[i.lane])
              applies == answered /\ ~stale
          IN  /\ appliedFrameRef' = IF applies
                                    THEN [appliedFrameRef EXCEPT ![i.lane] = receivedFrameId]
                                    ELSE appliedFrameRef
              /\ laneResultRef' = IF applies
                                  THEN [laneResultRef EXCEPT ![i.lane] =
                                           appliedResult(i.lane, outcome, receivedFrameId,
                                                         laneResultRef[i.lane])]
                                  ELSE laneResultRef
              /\ fusionFrameId' = IF applies /\ i.lane = "flash" THEN receivedFrameId
                                  ELSE fusionFrameId
              /\ dropped' = IF answered /\ stale
                            THEN [dropped EXCEPT ![i.lane] = @ \cup {receivedFrameId}]
                            ELSE dropped
              /\ timers' = loopFinally(i, retryDelayOverrideMs(i, outcome, stale), now)
    /\ pendingRef' = [pendingRef EXCEPT ![i.lane] = FALSE]
    /\ abortRef' = [abortRef EXCEPT ![i.lane] = <<>>]
    /\ loops' = loops \ {i}
    /\ UNCHANGED <<now, overlayVars, serverVars, cameraReady, runningRef, requestFrameRef, geminiReadyAtRef,
                   proFirstCaptureAtRef, proFirstRequestStartedRef, playings>>

(* fetch rejected with AbortError: the catch and the finally of the loop. *)
AbortSettles(i) ==
    /\ i.pc = "aborted"
    /\ timers' = loopFinally(i, retryDelayOverrideMs(i, "aborted", FALSE), now)
    /\ pendingRef' = [pendingRef EXCEPT ![i.lane] = FALSE]
    /\ abortRef' = [abortRef EXCEPT ![i.lane] = <<>>]
    /\ loops' = loops \ {i}
    /\ UNCHANGED <<now, overlayVars, serverVars, cameraReady, runningRef, requestFrameRef, appliedFrameRef,
                   geminiReadyAtRef, proFirstCaptureAtRef, proFirstRequestStartedRef, playings,
                   laneResultRef, fusionFrameId, dropped>>

PageDeadlines ==
    {timers[lane][1] : lane \in {l \in LaneName : timers[l] # <<>>}}
    \cup {i.dueAt : i \in {j \in loops : j.pc \in {"capturing", "fetching"}}}

(* Nothing is runnable in the page: the clock moves to its next timer,
   capture end or answer. *)
PageTick ==
    /\ ~Microtasks
    /\ PageDeadlines # {}
    /\ \A t \in PageDeadlines : t > now
    /\ LET next == CHOOSE t \in PageDeadlines : \A u \in PageDeadlines : t <= u
       IN  /\ next <= StartTime + PageHorizon
           /\ now' = next
    /\ UNCHANGED <<serverVars, pageVars, overlayVars>>

InitLoops ==
    /\ InitServer
    /\ InitPage
    /\ InitOverlay
    /\ calls = <<>>

NextLoops ==
    \/ OnPlaying
    \/ OnEnded
    \/ RunLiteLoop
    \/ RunFlashLoop
    \/ RunProLoop
    \/ \E i \in loops : ProClipCaptured(i)
    \/ \E i \in loops : FetchSettles(i)
    \/ \E i \in loops : AbortSettles(i)
    \/ PageTick

SpecLoops == InitLoops /\ [][NextLoops]_vars

-----------------------------------------------------------------------------
(* Properties *)

Started(c) == calls[c].pc # "idle"
Finished(c) == calls[c].pc \in {"resolved", "threw", "returned", "rejected"}

(* Call c holds the gate of model m: acquireGate returned for m and the
   attempt has not ended. *)
Holds(c, m) == calls[c].pc \in {"granted", "attempt"} /\ CurrentModel(calls[c]) = m
Holders(m) == {c \in Calls : Holds(c, m)}

(* Call c is inside acquireGate(m), waiting. *)
WaitsFor(c, m) == calls[c].pc = "sleeping" /\ CurrentModel(calls[c]) = m

(* C1: for every model at most one call holds its gate at any time, and the
   gate is marked in flight exactly while a call holds it - so a call that
   finds inFlight true is granted only after the holder's releaseGate. *)
C1_GateMutualExclusion ==
    \A m \in Models :
        /\ Cardinality(Holders(m)) <= 1
        /\ m \in DOMAIN gates => (gates[m].inFlight <=> Holders(m) # {})
        /\ m \notin DOMAIN gates => Holders(m) = {}

(* A call holds a gate while another one, having found it in flight, waits. *)
C1_Witness ==
    \E m \in Models : \E c, d \in Calls :
        /\ Holds(c, m) /\ WaitsFor(d, m)
        /\ calls[d].passWait > 0
        /\ gates[m].inFlight

(* The cooldowns the claim states, model by model. *)
StatedCooldown(m) ==
    CASE m = "gemini-2.5-flash-lite" -> 450
      [] m = "gemini-3.1-pro-preview" -> 45000
      [] OTHER -> 3200

(* C2: a gate released at time T is not granted again before
   T + cooldown (450 ms flash-lite, 45 s pro, 3.2 s otherwise). *)
C2_CooldownRespected ==
    \A m \in Models : \A c \in Holders(m) :
        released[m] # <<>> => calls[c].grantedAt >= released[m][1] + StatedCooldown(m)

(* The deep-lane gate is granted a second time, exactly when its cooldown ends. *)
C2_Witness ==
    \E c \in Calls :
        /\ Holds(c, PRO_MODEL)
        /\ released[PRO_MODEL] # <<>>
        /\ calls[c].grantedAt = released[PRO_MODEL][1] + 45000

(* C3: grants and releases of a gate alternate: a call has released every gate
   it was granted except the one it holds, each ended attempt released once,
   a call that has left generateWithLaneFallback holds nothing, and no gate
   is in flight without a holder. *)
C3_GrantsAndReleasesPaired ==
    /\ \A c \in Calls :
        /\ calls[c].nGrants = calls[c].nReleases
                               + (IF \E m \in Models : Holds(c, m) THEN 1 ELSE 0)
        /\ calls[c].nReleases = Len(calls[c].errors)
        /\ calls[c].nGrants <= Len(calls[c].models)
        /\ Finished(c) => calls[c].nGrants = calls[c].nReleases
    /\ \A m \in DOMAIN gates : gates[m].inFlight => Holders(m) # {}

(* A call whose second attempt ended by the per-attempt timeout has released both gates. *)
C3_Witness ==
    \E c \in Calls :
        /\ calls[c].pc = "threw"
        /\ calls[c].errors = <<NotFoundError, TimeoutError>>
        /\ calls[c].nReleases = Cardinality({"first", "second"})
        /\ \A m \in DOMAIN gates : ~gates[m].inFlight

(* C4 (as claimed): no acquireGate pass made more than GATE_MAX_WAIT_MS after
   the call entered acquireGate ends with anything but the gate-timeout
   error: the call is neither put back to sleep nor granted. *)
C4_GateWaitBounded ==
    \A c \in Calls :
        calls[c].pc \in {"sleeping", "granted"} => calls[c].passWait <= GATE_MAX_WAIT_MS

(* C5 (as claimed): a gate-wait timeout fails the call only when no candidate
   is left to try. *)
C5_GateTimeoutTriesNext ==
    \A c \in Calls :
        (Finished(c) /\ calls[c].lastError = GateTimeoutError)
            => calls[c].idx = Len(calls[c].models)

(* C5 (amended): a gate-wait timeout on candidate i ends generateWithLaneFallback
   with that error at once: no attempt is made on candidate i or on any later
   one, and the analyze* function answers with the default result. *)
C5_GateTimeoutAbortsCall ==
    \A c \in Calls :
        calls[c].gateTimeouts > 0 =>
            /\ calls[c].gateTimeouts = 1
            /\ calls[c].pc \in {"threw", "returned"}
            /\ calls[c].lastError = GateTimeoutError
            /\ Len(calls[c].attempts) = calls[c].idx - 1
            /\ calls[c].pc = "returned" =>
                  /\ Len(calls[c].result) = 1
                  /\ calls[c].result[1].confidence = 0
                  /\ calls[c].result[1].frameId = c

(* A fast-lane call timed out on the gate of its first candidate, two more untried. *)
C5_Witness ==
    \E c \in Calls :
        /\ calls[c].gateTimeouts = 1
        /\ calls[c].pc = "returned"
        /\ calls[c].idx = 1
        /\ Len(calls[c].models) = Cardinality({"first", "second", "third"})

(* The distinct candidates of a lane, preferred model first, as the constants
   list them. *)
StatedCandidates(lane) ==
    CASE lane = "lite" -> <<"gemini-2.5-flash-lite", "gemini-2.5-flash", "gemini-3-flash-preview">>
      [] lane = "flash" -> <<"gemini-3-flash-preview">>
      [] lane = "pro" -> <<"gemini-3.1-pro-preview">>

(* The sticky model first, then the other candidates in their order. *)
StatedOrder(lane, sticky) ==
    LET Other(m) == m # sticky
    IN  IF sticky = Undefined THEN StatedCandidates(lane)
        ELSE <<sticky>> \o SelectSeq(StatedCandidates(lane), Other)

(* The time the call's pending timer or answer is due. *)
CallDeadline(rec) ==
    CASE rec.pc = "idle" -> rec.arriveAt
      [] rec.pc = "sleeping" -> rec.wakeAt
      [] rec.pc = "attempt" -> SettleAt(rec)
      [] OTHER -> now

(* The longest one acquireGate can take: the in-flight wait, then a cooldown. *)
AcquireBound == GATE_MAX_WAIT_MS + GATE_POLL_MS + PRO_COOLDOWN_MS + 400

(* C6: a call attempts its lane's distinct candidates in the order sticky,
   preferred, fallbacks, each at most once (at most N attempts), and it ends:
   a call that has not returned is runnable or waits for a timer or answer
   still to come, and it returns within N gate waits and N attempt timeouts. *)
C6_FallbackTerminates ==
    \A c \in Calls :
        /\ Started(c) =>
            /\ calls[c].models = StatedOrder(calls[c].lane, calls[c].sticky)
            /\ Len(calls[c].attempts) <= Len(StatedCandidates(calls[c].lane))
            /\ \A i \in 1..Len(calls[c].attempts) : calls[c].attempts[i] = calls[c].models[i]
            /\ \A i, j \in 1..Len(calls[c].attempts) :
                  calls[c].attempts[i] = calls[c].attempts[j] => i = j
        /\ calls[c].pc # "returned" =>
            /\ Due(calls[c]) \/ CallDeadline(calls[c]) > now
            /\ Started(c) =>
                  now - calls[c].arriveAt
                      <= Len(calls[c].models) * (AcquireBound + calls[c].timeoutMs)

(* A fast-lane call has tried all three candidates and failed. *)
C6_Witness ==
    \E c \in Calls :
        /\ calls[c].pc = "returned"
        /\ calls[c].attempts = <<"gemini-2.5-flash-lite", "gemini-2.5-flash", "gemini-3-flash-preview">>
        /\ calls[c].errors = <<NotFoundError, NotFoundError, NotFoundError>>

(* C7: an attempt that ends with the per-attempt timeout, a quota error or a
   network error is the call's last: the call throws that error with the
   remaining candidates untried; every attempt followed by another one ended
   with a model-unavailable error. *)
C7_OtherErrorsAbort ==
    \A c \in Calls : \A i \in 1..Len(calls[c].errors) :
        /\ calls[c].errors[i] \in {TimeoutError, QuotaError, NetworkError} =>
              /\ i = Len(calls[c].errors)
              /\ Len(calls[c].attempts) = i
              /\ calls[c].idx = i
              /\ calls[c].pc \in {"threw", "returned"}
              /\ calls[c].lastError = calls[c].errors[i]
        /\ i < Len(calls[c].attempts) => calls[c].errors[i] \in {NotFoundError, UnsupportedError}

(* A fast-lane call fell back once and was then ended by a quota error, a candidate left untried. *)
C7_Witness ==
    \E c \in Calls :
        /\ calls[c].pc = "threw"
        /\ calls[c].errors = <<NotFoundError, QuotaError>>
        /\ Len(calls[c].models) > Len(calls[c].attempts)

(* C8: each lane's sticky model is the model of the latest successful attempt on
   that lane (a failed call and a success on another lane leave it alone), and
   a call that begins when its lane has one attempts it first. *)
C8_StickyModel ==
    /\ \A lane \in LaneName : resolvedLaneModels[lane] = lastSuccess[lane]
    /\ \A c \in Calls : (Started(c) /\ calls[c].sticky # Undefined) =>
        /\ calls[c].models[1] = calls[c].sticky
        /\ calls[c].attempts # <<>> => calls[c].attempts[1] = calls[c].sticky

(* A call attempts first the fallback model an earlier call succeeded with. *)
C8_Witness ==
    \E c \in Calls :
        /\ calls[c].sticky = "gemini-2.5-flash"
        /\ calls[c].attempts # <<>>
        /\ calls[c].attempts[1] = "gemini-2.5-flash"
        /\ resolvedLaneModels["lite"] = "gemini-2.5-flash"

Succeeded(c) ==
    calls[c].errors # <<>> /\ calls[c].errors[Len(calls[c].errors)] = NoError

(* C9: an analyze* call never rejects; when its lane call fails it returns the
   lane's default result: the request's frame id, confidence 0, empty lists
   and, where the shape has it, faceDetected false. *)
C9_AnalyzeNeverRejects ==
    \A c \in Calls :
        /\ calls[c].pc # "rejected"
        /\ calls[c].pc = "returned" => Len(calls[c].result) = 1
        /\ (calls[c].pc = "returned" /\ ~Succeeded(c)) =>
              /\ calls[c].result[1].frameId = c
              /\ calls[c].result[1].confidence = 0
              /\ calls[c].result[1].items = 0
              /\ calls[c].result[1].faceDetected = (IF calls[c].lane = "pro" THEN "absent" ELSE "false")
              /\ calls[c].result[1].model \in Models

(* Calls have returned the default result after a gate-wait timeout and after an attempt timeout. *)
C9_Witness ==
    \E c, d \in Calls :
        /\ calls[c].pc = "returned" /\ calls[c].lastError = GateTimeoutError
        /\ calls[d].pc = "returned" /\ calls[d].lastError = TimeoutError
        /\ calls[c].result[1].frameId = c

(* The requests of a lane the page has sent and that have neither been
   answered nor aborted. *)
Outstanding(lane) == {i \in loops : i.lane = lane /\ i.pc = "fetching"}

(* C10 (as claimed): each lane has at most one outstanding request at any
   time. *)
C10_OneOutstandingPerLane ==
    \A lane \in LaneName : Cardinality(Outstanding(lane)) <= 1

(* C11: per lane the last-applied frame id never decreases, and a step that
   handles an answer whose frame id is lower than the lane's last applied one
   changes neither the applied frame id, nor the lane's result, nor what the
   fusion engine was last given. *)
C11_AppliedFrameMonotone ==
    [][\A lane \in LaneName :
          /\ appliedFrameRef'[lane] >= appliedFrameRef[lane]
          /\ \A i \in loops :
                (/\ i.lane = lane /\ i.pc = "fetching" /\ i.dueAt = now
                 /\ i \notin loops'
                 /\ i.frameId < appliedFrameRef[lane])
                    => /\ appliedFrameRef'[lane] = appliedFrameRef[lane]
                       /\ laneResultRef'[lane] = laneResultRef[lane]
                       /\ fusionFrameId' = fusionFrameId]_vars

(* A deep-lane answer arrived after a later frame's answer had been applied,
   and was discarded. *)
C11_Witness ==
    /\ 1 \in dropped["pro"]
    /\ appliedFrameRef["pro"] = 2
    /\ laneResultRef["pro"] = 2

(* C12 (as claimed): while the loops are torn down (from the effect cleanup
   to the next start) no lane request is in flight: those sent before were
   aborted by stopLoops and none is started. *)
C12_TeardownAbortsRequests ==
    ~runningRef => \A i \in loops : i.pc # "fetching"

(* Call c is at model m's gate: waiting for it, or holding it. *)
AtGate(c, m) == Holds(c, m) \/ WaitsFor(c, m)

(* C13 (as claimed): no call waits at a gate that a call of a different
   lane holds. *)
C13_NoGateSharedByLanes ==
    \A m \in Models : \A c, d \in Calls :
        (Holds(c, m) /\ WaitsFor(d, m)) => calls[c].lane = calls[d].lane

(* C13 (amended): the deep lane's model gate is used by deep-lane calls only,
   and deep-lane calls use no other gate, so a deep-lane call and a call of
   another lane are never at the same gate; the only gate calls of different
   lanes meet at is that of gemini-3-flash-preview, between the fast and the
   mid lane. *)
C13_DeepLaneGateIsolated ==
    /\ \A c \in Calls : \A i \in 1..Len(calls[c].models) :
          (calls[c].models[i] = "gemini-3.1-pro-preview") <=> (calls[c].lane = "pro")
    /\ \A m \in Models : \A c, d \in Calls :
          (AtGate(c, m) /\ AtGate(d, m) /\ calls[c].lane # calls[d].lane)
              => /\ {calls[c].lane, calls[d].lane} = {"lite", "flash"}
                 /\ m = "gemini-3-flash-preview"

(* While a deep-lane attempt hangs, a call of another lane that arrived later
   is granted its gate on its first pass. *)
C13_Witness ==
    \E c, d \in Calls :
        /\ calls[c].lane = "pro" /\ calls[c].pc = "attempt"
        /\ calls[c].respAt - calls[c].grantedAt = HangLatency
        /\ calls[d].lane # "pro" /\ calls[d].pc = "granted"
        /\ calls[d].arriveAt > calls[c].arriveAt
        /\ calls[d].passWait = 0

-----------------------------------------------------------------------------
(* services/tracking/anchorFusion: the AnchorFusionEngine.                   *)
(* A point is <<y, x>> on the 0..1000 grid.  A tracking frame is NoFrame or  *)
(* [points, parts]: points maps a landmark index (its position in the array: *)
(* MediaPipeTracker.track numbers the landmarks by position) to its point,   *)
(* parts maps the tracked named parts to their points.                       *)

(* landmarkIndex?: number, when it is undefined *)
NoIndex == -1

clamp(value, min, max) == Min(max, Max(min, value))

squaredDistance(a, b) ==
    LET dy == a[1] - b[1]
        dx == a[2] - b[2]
    IN  dy * dy + dx * dx

addOffset_NoClamp(point, offset) == <<point[1] + offset[1], point[2] + offset[2]>>

addOffset(point, offset) ==
    <<clamp(point[1] + offset[1], 0, 1000), clamp(point[2] + offset[2], 0, 1000)>>

subtractPoint_Reversed(a, b) == <<b[1] - a[1], b[2] - a[2]>>

subtractPoint(a, b) == <<a[1] - b[1], a[2] - b[2]>>

(* The loop keeps the first landmark at the smallest distance (strict <). *)
nearestLandmarkIndex(frame, target) ==
    IF DOMAIN frame.points = {} THEN NoIndex
    ELSE CHOOSE i \in DOMAIN frame.points :
            \A j \in DOMAIN frame.points :
                \/ squaredDistance(frame.points[i], target)
                       < squaredDistance(frame.points[j], target)
                \/ /\ squaredDistance(frame.points[i], target)
                          = squaredDistance(frame.points[j], target)
                   /\ i <= j

(* frame && anchor.facialPart !== "unknown" && frame.parts[anchor.facialPart] *)
partTracked(anchor, frame) ==
    /\ frame # NoFrame
    /\ anchor.facialPart # "unknown"
    /\ anchor.facialPart \in DOMAIN frame.parts

resolveTargetPoint(anchor, frame) ==
    IF anchor.facialPart # "unknown" /\ anchor.facialPart \in DOMAIN frame.parts
    THEN frame.parts[anchor.facialPart]
    ELSE anchor.point

(* The Map as a sequence in insertion order. *)
BindingIds(bs) == {bs[k].id : k \in DOMAIN bs}

BindingOf(bs, id) == bs[CHOOSE k \in DOMAIN bs : bs[k].id = id]

(* bindings.set(id, b): a known key keeps its place, a new key goes last. *)
SetBinding(bs, b) ==
    IF b.id \in BindingIds(bs)
    THEN [k \in DOMAIN bs |-> IF bs[k].id = b.id THEN b ELSE bs[k]]
    ELSE Append(bs, b)

sweepAbsent_AnyAge(eng, bs, incomingIds, nowMs) ==
    SelectSeq(bs, LAMBDA b : b.id \in incomingIds)

(* The first loop of updateAnchors: what it leaves in the Map. *)
sweepAbsent(eng, bs, incomingIds, nowMs) ==
    SelectSeq(bs, LAMBDA b : ~(b.id \notin incomingIds /\ nowMs - b.lastSeenAt > eng.maxStaleMs))

(* The body of the second loop of updateAnchors: the binding set for anchor. *)
bindAnchor(eng, bs, anchor, frame, nowMs) ==
    LET hasPrevious == anchor.id \in BindingIds(bs)
        previous == BindingOf(bs, anchor.id)
        target == IF frame # NoFrame THEN resolveTargetPoint(anchor, frame) ELSE anchor.point
        isKnownPart == partTracked(anchor, frame)
        shouldUsePrevious ==
            /\ hasPrevious
            /\ frame # NoFrame
            /\ previous.landmarkIndex # NoIndex
            /\ previous.landmarkIndex \in DOMAIN frame.points
            /\ squaredDistance(anchor.point, frame.points[previous.landmarkIndex])
                   < eng.reacquireDistanceSq
        kept == IF hasPrevious THEN previous.landmarkIndex ELSE NoIndex
        searched == IF ~isKnownPart /\ ~shouldUsePrevious /\ frame # NoFrame
                    THEN nearestLandmarkIndex(frame, target)
                    ELSE kept
        landmarkIndex == IF isKnownPart THEN NoIndex ELSE searched
        trackedPoint ==
            IF frame # NoFrame /\ landmarkIndex # NoIndex
            THEN IF landmarkIndex \in DOMAIN frame.points
                 THEN frame.points[landmarkIndex]
                 ELSE anchor.point
            ELSE target
        offset == IF isKnownPart THEN <<0, 0>> ELSE subtractPoint(anchor.point, trackedPoint)
    IN  [id |-> anchor.id, anchor |-> anchor, landmarkIndex |-> landmarkIndex,
         offset |-> offset, lastSeenAt |-> nowMs]

RECURSIVE bindAll(_, _, _, _, _)
bindAll(eng, bs, nextAnchors, frame, nowMs) ==
    IF nextAnchors = <<>> THEN bs
    ELSE bindAll(eng, SetBinding(bs, bindAnchor(eng, bs, Head(nextAnchors), frame, nowMs)),
                 Tail(nextAnchors), frame, nowMs)

updateAnchors(eng, bs, nextAnchors, frame, nowMs) ==
    LET incomingIds == {nextAnchors[k].id : k \in DOMAIN nextAnchors}
    IN  bindAll(eng, sweepAbsent(eng, bs, incomingIds, nowMs), nextAnchors, frame, nowMs)

maxAgeMs_AlwaysSoft(eng, preserveStale) == eng.maxStaleMs

(* const maxAgeMs = options.preserveStale ? this.hardMaxStaleMs : this.maxStaleMs *)
maxAgeMs(eng, preserveStale) ==
    IF preserveStale THEN eng.hardMaxStaleMs ELSE eng.maxStaleMs

projectedPoint_LandmarkFirst(binding, frame) ==
    IF frame # NoFrame /\ binding.landmarkIndex # NoIndex
           /\ binding.landmarkIndex \in DOMAIN frame.points
    THEN addOffset(frame.points[binding.landmarkIndex], binding.offset)
    ELSE IF partTracked(binding.anchor, frame)
    THEN frame.parts[binding.anchor.facialPart]
    ELSE binding.anchor.point

(* The if / else-if chain of project that picks the projected point. *)
projectedPoint(binding, frame) ==
    IF partTracked(binding.anchor, frame)
    THEN frame.parts[binding.anchor.facialPart]
    ELSE IF frame # NoFrame /\ binding.landmarkIndex # NoIndex
            /\ binding.landmarkIndex \in DOMAIN frame.points
    THEN addOffset(frame.points[binding.landmarkIndex], binding.offset)
    ELSE IF frame # NoFrame
    THEN LET fallbackIndex == nearestLandmarkIndex(frame, binding.anchor.point)
         IN  IF fallbackIndex # NoIndex THEN frame.points[fallbackIndex]
             ELSE binding.anchor.point
    ELSE binding.anchor.point

(* age > maxAgeMs, the test of project that deletes a binding. *)
expired(eng, binding, nowMs, preserveStale) ==
    nowMs - binding.lastSeenAt > maxAgeMs(eng, preserveStale)

projectKeeps_Touch(eng, bs, nowMs, preserveStale) ==
    LET kept == SelectSeq(bs, LAMBDA b : ~expired(eng, b, nowMs, preserveStale))
    IN  [k \in DOMAIN kept |-> [kept[k] EXCEPT !.lastSeenAt = nowMs]]

(* What project leaves in the Map. *)
projectKeeps(eng, bs, nowMs, preserveStale) ==
    SelectSeq(bs, LAMBDA b : ~expired(eng, b, nowMs, preserveStale))

(* projected.push({ ...binding.anchor, projectedPoint, stale }) *)
fusedAnchor(eng, binding, frame, nowMs) ==
    [id |-> binding.anchor.id, facialPart |-> binding.anchor.facialPart,
     point |-> binding.anchor.point, confidence |-> binding.anchor.confidence,
     projectedPoint |-> projectedPoint(binding, frame),
     stale |-> 2 * (nowMs - binding.lastSeenAt) > eng.maxStaleMs]

(* projected.sort((a, b) => b.confidence - a.confidence): a stable sort. *)
RECURSIVE sortByConfidence(_)
sortByConfidence(xs) ==
    IF xs = <<>> THEN <<>>
    ELSE LET k == CHOOSE i \in DOMAIN xs :
                    \A j \in DOMAIN xs :
                        \/ xs[i].confidence > xs[j].confidence
                        \/ xs[i].confidence = xs[j].confidence /\ i <= j
         IN  <<xs[k]>> \o sortByConfidence(SubSeq(xs, 1, k - 1) \o SubSeq(xs, k + 1, Len(xs)))

(* The array project returns. *)
project(eng, bs, frame, nowMs, preserveStale) ==
    LET pushed == SelectSeq(bs, LAMBDA b : ~expired(eng, b, nowMs, preserveStale))
    IN  sortByConfidence([k \in DOMAIN pushed |-> fusedAnchor(eng, pushed[k], frame, nowMs)])

(* Bounds of the engine's inputs.  Confidence is in hundredths. *)
ShortStep == 3000
LongStep == 27000
MaxShortSteps == 2

ReportedPoint == <<700, 500>>
EdgePoint == <<990, 500>>
HighConfidence == 80
LowConfidence == 60

MouthAnchor ==
    [id |-> "emo-happy-mouth-1", facialPart |-> "mouth", point |-> ReportedPoint,
     confidence |-> HighConfidence]

AdHocAnchors ==
    {[id |-> "lm-0-jaw", facialPart |-> "unknown", point |-> ReportedPoint,
      confidence |-> LowConfidence],
     [id |-> "lm-0-jaw", facialPart |-> "unknown", point |-> EdgePoint,
      confidence |-> HighConfidence]}

AnchorLists ==
    {<<>>, <<MouthAnchor>>}
        \cup {<<a>> : a \in AdHocAnchors}
        \cup {<<MouthAnchor, a>> : a \in AdHocAnchors}

FarLandmark == <<200, 200>>

TrackedFrame(landmark, parts) ==
    [points |-> [i \in {0, 1} |-> IF i = 0 THEN FarLandmark ELSE landmark], parts |-> parts]

NoParts == <<>>
MouthAt(p) == [part \in {"mouth"} |-> p]

Frames ==
    {NoFrame,
     TrackedFrame(<<705, 498>>, NoParts),
     TrackedFrame(<<650, 480>>, NoParts),
     TrackedFrame(<<650, 480>>, MouthAt(<<640, 470>>))}

EngineOptions ==
    {[maxStaleMs |-> <<>>, hardMaxStaleMs |-> <<>>, reacquireDistance |-> <<>>],
     [maxStaleMs |-> <<6000>>, hardMaxStaleMs |-> <<3000>>, reacquireDistance |-> <<>>]}

InitFusion ==
    /\ InitServer
    /\ InitPage
    /\ calls = <<>>
    /\ engine \in {AnchorFusionEngine(options) : options \in EngineOptions}
    /\ bindings = <<>>
    /\ projected = <<>>
    /\ lastCall = NoCall
    /\ layoutCall = <<>>
    /\ layoutResult = <<>>
    /\ InitEdge

(* Time passes between two calls on the engine: a few short pauses and one
   long one. *)
FusionTick ==
    /\ \/ /\ ((now - StartTime) % LongStep) \div ShortStep < MaxShortSteps
          /\ now' = now + ShortStep
       \/ /\ now - StartTime < LongStep
          /\ now' = now + LongStep
    /\ UNCHANGED <<serverVars, pageVars, overlayVars>>

(* engine.updateAnchors(nextAnchors, frame, now) *)
UpdateAnchors ==
    /\ \E nextAnchors \in AnchorLists, frame \in Frames :
        /\ bindings' = updateAnchors(engine, bindings, nextAnchors, frame, now)
        /\ projected' = <<>>
        /\ lastCall' = [NoCall EXCEPT !.op = "update", !.anchors = nextAnchors,
                                      !.frame = frame, !.at = now]
    /\ UNCHANGED <<now, serverVars, pageVars, engine, layoutCall, layoutResult, edgeVars>>

(* engine.project(frame, now, { preserveStale }) *)
Project ==
    /\ \E frame \in Frames, preserveStale \in BOOLEAN :
        /\ projected' = project(engine, bindings, frame, now, preserveStale)
        /\ bindings' = projectKeeps(engine, bindings, now, preserveStale)
        /\ lastCall' = [op |-> "project", anchors |-> <<>>, frame |-> frame,
                        preserveStale |-> preserveStale, at |-> now,
                        repeated |-> /\ lastCall.op = "project"
                                     /\ lastCall.frame = frame
                                     /\ lastCall.preserveStale = preserveStale
                                     /\ lastCall.at = now]
    /\ UNCHANGED <<now, serverVars, pageVars, engine, layoutCall, layoutResult, edgeVars>>

NextFusion ==
    \/ FusionTick
    \/ UpdateAnchors
    \/ Project

SpecFusion == InitFusion /\ [][NextFusion]_vars

-----------------------------------------------------------------------------
(* Properties of the AnchorFusionEngine *)

Returned(id) == projected[CHOOSE k \in DOMAIN projected : projected[k].id = id]

ReturnedIds == {projected[k].id : k \in DOMAIN projected}

(* C14: an anchor whose facial part is a named part present in the part map
   of the frame given to project is returned with exactly that part's tracked
   point as its projected point, whatever landmark index and offset its
   binding holds. *)
C14_NamedPartPriority ==
    (lastCall.op = "project" /\ lastCall.frame # NoFrame)
        => \A k \in DOMAIN projected :
              (/\ projected[k].facialPart # "unknown"
               /\ projected[k].facialPart \in DOMAIN lastCall.frame.parts)
                  => projected[k].projectedPoint
                         = lastCall.frame.parts[projected[k].facialPart]

(* A mouth anchor bound to a landmark with a non-zero offset while the mouth
   was not tracked, projected with a frame that tracks the mouth: the part's
   point is returned, and it is not the landmark's point plus the offset. *)
C14_Witness ==
    /\ lastCall.op = "project"
    /\ lastCall.frame # NoFrame
    /\ "mouth" \in DOMAIN lastCall.frame.parts
    /\ \E k \in DOMAIN bindings :
        /\ bindings[k].anchor.facialPart = "mouth"
        /\ bindings[k].landmarkIndex # NoIndex
        /\ bindings[k].offset # <<0, 0>>
        /\ bindings[k].id \in ReturnedIds
        /\ Returned(bindings[k].id).projectedPoint = lastCall.frame.parts["mouth"]
        /\ Returned(bindings[k].id).projectedPoint
               # addOffset(lastCall.frame.points[bindings[k].landmarkIndex], bindings[k].offset)

(* C15: for a binding whose facial part is not tracked in the frame given to
   project and that holds landmark index i and offset o, with landmark i
   present in the frame, project returns the tracked point of i plus o, each
   coordinate clamped to 0..1000. *)
C15_LandmarkPlusOffset ==
    (lastCall.op = "project" /\ lastCall.frame # NoFrame)
        => \A k \in DOMAIN bindings :
              LET b == bindings[k]
                  frame == lastCall.frame
              IN  (/\ \/ b.anchor.facialPart = "unknown"
                      \/ b.anchor.facialPart \notin DOMAIN frame.parts
                   /\ b.landmarkIndex # NoIndex
                   /\ b.landmarkIndex \in DOMAIN frame.points)
                      => /\ b.id \in ReturnedIds
                         /\ Returned(b.id).projectedPoint
                              = <<Min(1000, Max(0, frame.points[b.landmarkIndex][1] + b.offset[1])),
                                  Min(1000, Max(0, frame.points[b.landmarkIndex][2] + b.offset[2]))>>

(* The anchor reported at [700,500] and bound to a landmark at [705,498]
   (offset [-5,2]) is projected to [645,482] once the landmark is at
   [650,480], and not to the point it was reported at. *)
C15_Witness ==
    /\ lastCall.op = "project"
    /\ lastCall.frame # NoFrame
    /\ \E k \in DOMAIN bindings :
        /\ bindings[k].anchor.point = <<700, 500>>
        /\ bindings[k].landmarkIndex # NoIndex
        /\ bindings[k].offset = <<-5, 2>>
        /\ bindings[k].anchor.facialPart \notin DOMAIN lastCall.frame.parts
        /\ lastCall.frame.points[bindings[k].landmarkIndex] = <<650, 480>>
        /\ bindings[k].id \in ReturnedIds
        /\ Returned(bindings[k].id).projectedPoint = <<645, 482>>
        /\ Returned(bindings[k].id).projectedPoint # bindings[k].anchor.point

(* C16 as stated: while a binding stays in the Map bound to a landmark (not to
   a tracked named part), no call on the engine changes its offset. *)
C16_OffsetFixedUntilRecreated ==
    [][\A id \in BindingIds(bindings) \cap BindingIds(bindings') :
          (/\ BindingOf(bindings, id).landmarkIndex # NoIndex
           /\ BindingOf(bindings', id).landmarkIndex = BindingOf(bindings, id).landmarkIndex)
              => BindingOf(bindings', id).offset = BindingOf(bindings, id).offset]_vars

(* The offset updateAnchors stores for an anchor it was given: zero for a
   tracked named part, else the reported point minus the tracked point of the
   landmark the binding now holds (the reported point itself without one). *)
StatedOffset(b, frame) ==
    LET tracked == IF /\ frame # NoFrame
                      /\ b.landmarkIndex # NoIndex
                      /\ b.landmarkIndex \in DOMAIN frame.points
                   THEN frame.points[b.landmarkIndex]
                   ELSE b.anchor.point
    IN  IF /\ frame # NoFrame
           /\ b.anchor.facialPart # "unknown"
           /\ b.anchor.facialPart \in DOMAIN frame.parts
        THEN <<0, 0>>
        ELSE <<b.anchor.point[1] - tracked[1], b.anchor.point[2] - tracked[2]>>

(* C16, amended: project changes no binding, and updateAnchors changes no
   binding whose id is absent from its anchor list; for every anchor in its
   list updateAnchors stores the offset anew, from the anchor's reported point
   and the frame it was given. *)
C16_OffsetSetByEachUpdate ==
    [][now' = now =>
          /\ lastCall'.op = "project"
                => \A k \in DOMAIN bindings' : \E j \in DOMAIN bindings : bindings[j] = bindings'[k]
          /\ lastCall'.op = "update"
                => \A k \in DOMAIN bindings' :
                      IF \E n \in DOMAIN lastCall'.anchors : lastCall'.anchors[n].id = bindings'[k].id
                      THEN /\ \E n \in DOMAIN lastCall'.anchors :
                                  lastCall'.anchors[n] = bindings'[k].anchor
                           /\ bindings'[k].offset = StatedOffset(bindings'[k], lastCall'.frame)
                      ELSE \E j \in DOMAIN bindings : bindings[j] = bindings'[k]]_vars

(* An anchor that already had its place in the Map is listed again by a later
   updateAnchors, stays on its landmark, and holds the offset to where the
   landmark is now ([700,500] - [650,480]). *)
C16_Witness ==
    /\ lastCall.op = "update"
    /\ Len(lastCall.anchors) = 2
    /\ lastCall.anchors[1].id = "emo-happy-mouth-1"
    /\ lastCall.anchors[2].id = "lm-0-jaw"
    /\ Len(bindings) = 2
    /\ bindings[1].id = "lm-0-jaw"
    /\ bindings[1].landmarkIndex # NoIndex
    /\ bindings[1].anchor.point = <<700, 500>>
    /\ bindings[1].offset = <<50, 20>>

(* C17: a project call with the frame, the timestamp and the preserveStale
   option of the project call just before it (no updateAnchors in between)
   returns the same array, in the same order, and leaves the same bindings. *)
C17_ProjectIdempotent ==
    [][(now' = now /\ lastCall'.op = "project" /\ lastCall'.repeated)
          => (projected' = projected /\ bindings' = bindings)]_vars

(* A repeated project call over two bindings of equal confidence, both past
   half the soft ceiling. *)
C17_Witness ==
    /\ lastCall.op = "project"
    /\ lastCall.repeated
    /\ lastCall.frame # NoFrame
    /\ Len(projected) = 2
    /\ projected[1].confidence = projected[2].confidence
    /\ projected[1].stale
    /\ projected[2].stale

(* C18: project deletes exactly the bindings whose age, now - lastSeenAt,
   exceeds the ceiling (the hard ceiling with preserveStale, else the soft
   one), leaves the others as they were and returns one anchor for each of
   them; no returned anchor is older than the hard ceiling. *)
C18_ProjectPrunesByCeiling ==
    [][(now' = now /\ lastCall'.op = "project")
          => LET ceiling == IF lastCall'.preserveStale THEN engine.hardMaxStaleMs
                            ELSE engine.maxStaleMs
                 young == {j \in DOMAIN bindings : now - bindings[j].lastSeenAt <= ceiling}
             IN  /\ BindingIds(bindings') = {bindings[j].id : j \in young}
                 /\ \A k \in DOMAIN bindings' : \E j \in young : bindings[j] = bindings'[k]
                 /\ Len(projected') = Cardinality(young)
                 /\ {projected'[k].id : k \in DOMAIN projected'} = {bindings[j].id : j \in young}
                 /\ \A j \in young : now - bindings[j].lastSeenAt <= engine.hardMaxStaleMs]_vars

(* A project call with preserveStale returned a binding whose age equals the
   hard ceiling, which is past the soft one. *)
C18_Witness ==
    /\ lastCall.op = "project"
    /\ lastCall.preserveStale
    /\ lastCall.at = now
    /\ \E k \in DOMAIN bindings :
        /\ now - bindings[k].lastSeenAt = engine.hardMaxStaleMs
        /\ now - bindings[k].lastSeenAt > engine.maxStaleMs
        /\ bindings[k].id \in ReturnedIds
        /\ Returned(bindings[k].id).stale

-----------------------------------------------------------------------------
(* services/overlay/smoothing: layoutLabels.                                 *)
(* Lengths are whole pixels and label sizes are even, so that width / 2 is   *)
(* whole; a priority is in hundredths; an id is the sequence of its char     *)
(* codes.  A face centre is given on a horizontal or vertical line through   *)
(* the anchor, which makes the outward unit vector whole.                    *)

Abs(x) == IF x < 0 THEN -x ELSE x

OFFSETS ==
    << <<14, -18>>, <<16, 16>>, <<-16, -18>>, <<-16, 18>>,
       <<24, 0>>, <<-24, 0>>, <<0, -24>>, <<0, 24>> >>

EMOTION_OFFSETS ==
    << <<112, -88>>, <<118, -42>>, <<124, 10>>, <<114, 62>>, <<98, 102>>,
       <<70, 122>>, <<30, 134>>, <<-30, 134>>, <<-70, 122>>, <<-98, 102>>,
       <<-114, 62>>, <<-124, 10>>, <<-118, -42>>, <<-112, -88>>, <<-94, -118>>,
       <<-56, -136>>, <<0, -144>>, <<56, -136>>, <<94, -118>>, <<132, -4>>,
       <<132, 52>>, <<132, -56>>, <<-132, -4>>, <<-132, 52>>, <<-132, -56>> >>

intersects(a, b) ==
    /\ a.x < b.x + b.width
    /\ a.x + a.width > b.x
    /\ a.y < b.y + b.height
    /\ a.y + a.height > b.y

intersectsWithGap(a, b, gap) ==
    /\ a.x - gap < b.x + b.width + gap
    /\ a.x + a.width + gap > b.x - gap
    /\ a.y - gap < b.y + b.height + gap
    /\ a.y + a.height + gap > b.y - gap

keepInBounds_NoClamp(layout, bounds) == layout

keepInBounds(layout, bounds) ==
    LET padding == OrElse(bounds.padding, 8)
    IN  [layout EXCEPT
            !.x = clamp(layout.x, padding, bounds.width - layout.width - padding),
            !.y = clamp(layout.y, padding, bounds.height - layout.height - padding)]

(* Math.hypot, where the quotients x / length and y / length are whole. *)
Hypot(x, y) ==
    CHOOSE n \in 0..(Abs(x) + Abs(y)) :
        /\ n * n = x * x + y * y
        /\ n # 0 => (x % n = 0 /\ y % n = 0)

NoDirection == [null |-> TRUE]

getOutwardDirection(anchorX, anchorY, bounds) ==
    IF bounds.faceCenterX = <<>> \/ bounds.faceCenterY = <<>> THEN NoDirection
    ELSE LET outwardX == anchorX - bounds.faceCenterX[1]
             outwardY == anchorY - bounds.faceCenterY[1]
             length == Hypot(outwardX, outwardY)
         IN  IF length = 0 THEN NoDirection
             ELSE [x |-> outwardX \div length, y |-> outwardY \div length]

(* (centerX - anchorX) * x + (centerY - anchorY) * y > 0, both sides doubled. *)
isPlacementOutward(anchorX, anchorY, layout, outwardDirection) ==
    LET vectorX2 == 2 * layout.x + layout.width - 2 * anchorX
        vectorY2 == 2 * layout.y + layout.height - 2 * anchorY
    IN  vectorX2 * outwardDirection.x + vectorY2 * outwardDirection.y > 0

(* hashText keeps 32 bits (>>> 0): the hash is <<high 16 bits, low 16 bits>>. *)
HalfWord == 65536

RECURSIVE hashFrom(_, _)
hashFrom(hash, codes) ==
    IF codes = <<>> THEN hash
    ELSE LET low == hash[2] * 31 + Head(codes)
         IN  hashFrom(<<(hash[1] * 31 + (low \div HalfWord)) % HalfWord, low % HalfWord>>,
                      Tail(codes))

hashText(value) == hashFrom(<<0, 0>>, value)

HashLess(g, h) == g[1] < h[1] \/ (g[1] = h[1] /\ g[2] < h[2])

HashMod(h, n) == ((h[1] % n) * (HalfWord % n) + (h[2] % n)) % n

rotateOffsets(offsets, start) ==
    IF Len(offsets) = 0 THEN offsets
    ELSE LET normalized == HashMod(start, Len(offsets))
         IN  SubSeq(offsets, normalized + 1, Len(offsets)) \o SubSeq(offsets, 1, normalized)

(* The comparator of prioritizeOutwardOffsets: a before b when a's cosine to
   the outward direction is larger, or the cosines agree and a is longer.
   The cosines a.o / |a| are compared by sign and by cross-multiplied
   squares. *)
OffsetBefore(a, b, outward) ==
    LET aDot == a[1] * outward.x + a[2] * outward.y
        bDot == b[1] * outward.x + b[2] * outward.y
        aLen2 == IF a = <<0, 0>> THEN 1 ELSE a[1] * a[1] + a[2] * a[2]
        bLen2 == IF b = <<0, 0>> THEN 1 ELSE b[1] * b[1] + b[2] * b[2]
        aKey == (IF aDot < 0 THEN -1 ELSE 1) * aDot * aDot * bLen2
        bKey == (IF bDot < 0 THEN -1 ELSE 1) * bDot * bDot * aLen2
    IN  IF aKey # bKey THEN aKey > bKey ELSE aLen2 > bLen2

RECURSIVE sortOffsets(_, _)
sortOffsets(offsets, outward) ==
    IF offsets = <<>> THEN <<>>
    ELSE LET k == CHOOSE i \in DOMAIN offsets :
                    /\ \A j \in DOMAIN offsets : ~OffsetBefore(offsets[j], offsets[i], outward)
                    /\ \A j \in 1..(i - 1) :
                          \E m \in DOMAIN offsets : OffsetBefore(offsets[m], offsets[j], outward)
         IN  <<offsets[k]>>
                \o sortOffsets(SubSeq(offsets, 1, k - 1) \o SubSeq(offsets, k + 1, Len(offsets)),
                               outward)

prioritizeOutwardOffsets(offsets, anchorX, anchorY, bounds) ==
    LET outward == getOutwardDirection(anchorX, anchorY, bounds)
    IN  IF outward = NoDirection THEN offsets ELSE sortOffsets(offsets, outward)

(* The comparator of the sort in layoutLabels. *)
LabelBefore(a, b) ==
    LET diff == b.priority - a.priority
    IN  IF Abs(diff) > 3 THEN diff < 0 ELSE HashLess(hashText(a.id), hashText(b.id))

RECURSIVE sortLabels(_)
sortLabels(inputs) ==
    IF inputs = <<>> THEN <<>>
    ELSE LET k == CHOOSE i \in DOMAIN inputs :
                    /\ \A j \in DOMAIN inputs : ~LabelBefore(inputs[j], inputs[i])
                    /\ \A j \in 1..(i - 1) :
                          \E m \in DOMAIN inputs : LabelBefore(inputs[m], inputs[j])
         IN  <<inputs[k]>>
                \o sortLabels(SubSeq(inputs, 1, k - 1) \o SubSeq(inputs, k + 1, Len(inputs)))

(* { ...input, x, y }; pass records which part of the loop body produced the
   position (it is not a field of LabelLayoutOutput). *)
Positioned(input, x, y, pass) ==
    [id |-> input.id, anchorX |-> input.anchorX, anchorY |-> input.anchorY,
     width |-> input.width, height |-> input.height, priority |-> input.priority,
     preferDistance |-> input.preferDistance, x |-> x, y |-> y, pass |-> pass]

hasCollision_Never(placed, attempt, collisionGap) == FALSE

(* placed.some(...) of the first pass *)
hasCollision(placed, attempt, collisionGap) ==
    \E e \in DOMAIN placed :
        IF collisionGap > 0 THEN intersectsWithGap(placed[e], attempt, collisionGap)
        ELSE intersects(placed[e], attempt)

(* The body of the loop of layoutLabels: the position pushed for input. *)
placeLabel(input, placed, bounds) ==
    LET offsets == IF input.preferDistance
                   THEN prioritizeOutwardOffsets(
                            rotateOffsets(EMOTION_OFFSETS, hashText(input.id)),
                            input.anchorX, input.anchorY, bounds)
                   ELSE OFFSETS
        outwardDirection == IF input.preferDistance
                            THEN getOutwardDirection(input.anchorX, input.anchorY, bounds)
                            ELSE NoDirection
        attempt(k, pass) ==
            keepInBounds(Positioned(input, input.anchorX + offsets[k][1],
                                    input.anchorY + offsets[k][2], pass), bounds)
        collisionGap == IF input.preferDistance THEN 10 ELSE 0
        first == {k \in DOMAIN offsets :
                    /\ outwardDirection # NoDirection
                          => isPlacementOutward(input.anchorX, input.anchorY,
                                                attempt(k, "first"), outwardDirection)
                    /\ ~hasCollision(placed, attempt(k, "first"), collisionGap)}
        retry == {k \in DOMAIN offsets :
                    ~\E e \in DOMAIN placed :
                        intersectsWithGap(placed[e], attempt(k, "retry"), 6)}
        least(ks) == CHOOSE k \in ks : \A j \in ks : k <= j
    IN  IF first # {} THEN attempt(least(first), "first")
        ELSE IF outwardDirection # NoDirection /\ retry # {}
        THEN attempt(least(retry), "retry")
        ELSE IF input.preferDistance /\ outwardDirection # NoDirection
        THEN keepInBounds(
                 Positioned(input,
                            input.anchorX + outwardDirection.x * 118 - input.width \div 2,
                            input.anchorY + outwardDirection.y * 118 - input.height \div 2,
                            "fallback"), bounds)
        ELSE LET fallback == IF input.preferDistance THEN <<52, 0>> ELSE <<14, 14>>
             IN  keepInBounds(Positioned(input, input.anchorX + fallback[1],
                                         input.anchorY + fallback[2], "fallback"), bounds)

RECURSIVE placeAll(_, _, _)
placeAll(sorted, placed, bounds) ==
    IF sorted = <<>> THEN placed
    ELSE placeAll(Tail(sorted), Append(placed, placeLabel(Head(sorted), placed, bounds)), bounds)

layoutLabels(inputs, bounds, maxLabels) ==
    LET ordered == sortLabels(inputs)
        sorted == SubSeq(ordered, 1, Min(maxLabels, Len(ordered)))
    IN  placeAll(sorted, <<>>, bounds)

(* The orders Array.prototype.sort can leave the inputs in.  When some
   arrangement of the inputs agrees with every comparison, the comparator is
   consistent and the stable sort returns sortLabels(inputs); when none does
   (the near-tie rule makes the comparator cyclic), the order is left to the
   implementation and any arrangement may come back. *)
Arrangements(inputs) ==
    {[k \in DOMAIN inputs |-> inputs[p[k]]] :
        p \in {q \in [DOMAIN inputs -> DOMAIN inputs] :
                  \A i, j \in DOMAIN inputs : i # j => q[i] # q[j]}}

InOrder(ordered) ==
    \A i, j \in DOMAIN ordered : i < j => ~LabelBefore(ordered[j], ordered[i])

sortOutcomes(inputs) ==
    IF \E ordered \in Arrangements(inputs) : InOrder(ordered)
    THEN {sortLabels(inputs)}
    ELSE Arrangements(inputs)

(* What layoutLabels can return. *)
layoutOutcomes(inputs, bounds, maxLabels) ==
    {placeAll(SubSeq(ordered, 1, Min(maxLabels, Len(ordered))), <<>>, bounds) :
        ordered \in sortOutcomes(inputs)}

(* Bounds of the inputs of layoutLabels. *)
MaxLabelCount == 3

JoyId == <<101, 109, 111, 45, 106, 111, 121, 45, 49>>         \* "emo-joy-1"
FearId == <<101, 109, 111, 45, 102, 101, 97, 114, 45, 49>>    \* "emo-fear-1"
JawId == <<108, 109, 45, 48, 45, 106, 97, 119>>               \* "lm-0-jaw"
LabelIds == <<JoyId, FearId, JawId>>

NearAnchor == <<500, 300>>
EdgeAnchor == <<990, 300>>
LabelAnchors == {NearAnchor, EdgeAnchor}

SmallLabel == <<100, 30>>
HugeLabel == <<900, 500>>
TooWideLabel == <<996, 30>>
LabelSizes == {SmallLabel, HugeLabel, TooWideLabel}

PriorityPatterns == {<<90, 89, 50>>, <<50, 89, 90>>}

Viewports ==
    {[width |-> 1000, height |-> 600, padding |-> padding,
      faceCenterX |-> center[1], faceCenterY |-> center[2]] :
        padding \in {<<>>, <<20>>},
        center \in {<<<<>>, <<>>>>, <<<<400>>, <<300>>>>, <<<<500>>, <<300>>>>,
                    <<<<600>>, <<300>>>>}}

LabelInputs ==
    UNION {{[k \in 1..n |->
                [id |-> LabelIds[((k - 1) % Len(LabelIds)) + 1], anchorX |-> anchors[k][1], anchorY |-> anchors[k][2],
                 width |-> size[1], height |-> size[2],
                 priority |-> priorities[((k - 1) % Len(priorities)) + 1],
                 preferDistance |-> prefers[k]]] :
              anchors \in [1..n -> LabelAnchors], prefers \in [1..n -> BOOLEAN],
              size \in LabelSizes, priorities \in PriorityPatterns} :
           n \in 0..MaxLabelCount}

LayoutCalls ==
    {[inputs |-> inputs, bounds |-> bounds, maxLabels |-> maxLabels] :
        inputs \in LabelInputs, bounds \in Viewports,
        maxLabels \in {MaxLabelCount - 1, MaxLabelCount}}

InitLayout ==
    /\ InitServer
    /\ InitPage
    /\ calls = <<>>
    /\ engine = fusionRef
    /\ bindings = <<>>
    /\ projected = <<>>
    /\ lastCall = NoCall
    /\ layoutCall \in {<<call>> : call \in LayoutCalls}
    /\ layoutResult = <<>>
    /\ InitEdge

(* layoutLabels(inputs, bounds, maxLabels) returns. *)
LayoutLabels ==
    /\ layoutCall # <<>>
    /\ layoutResult = <<>>
    /\ \E result \in layoutOutcomes(layoutCall[1].inputs, layoutCall[1].bounds,
                                     layoutCall[1].maxLabels) :
          layoutResult' = <<result>>
    /\ UNCHANGED <<now, serverVars, pageVars, engine, bindings, projected, lastCall, layoutCall,
                   edgeVars>>

NextLayout == LayoutLabels

SpecLayout == InitLayout /\ [][NextLayout]_vars

-----------------------------------------------------------------------------
(* Properties of layoutLabels *)

Padding == OrElse(layoutCall[1].bounds.padding, 8)

(* The label leaves room for the padding on both sides, in both directions. *)
FitsViewport(label) ==
    /\ label.width + 2 * Padding <= layoutCall[1].bounds.width
    /\ label.height + 2 * Padding <= layoutCall[1].bounds.height

Overlap(a, b, gap) ==
    /\ a.x < b.x + b.width + 2 * gap
    /\ b.x < a.x + a.width + 2 * gap
    /\ a.y < b.y + b.height + 2 * gap
    /\ b.y < a.y + a.height + 2 * gap

(* C19 as stated: when every input label fits the viewport, no two boxes of
   the output intersect. *)
C19_NoTwoBoxesIntersect ==
    (/\ layoutResult # <<>>
     /\ \A k \in DOMAIN layoutCall[1].inputs : FitsViewport(layoutCall[1].inputs[k]))
        => \A i, j \in DOMAIN layoutResult[1] :
              i < j => ~Overlap(layoutResult[1][i], layoutResult[1][j], 0)

(* C19, amended: a label placed by a candidate offset intersects no label
   placed before it, and a distance-preferring one keeps the gap of its pass
   (10 on each box in the first pass, 6 in the retry pass); two boxes of the
   output intersect only if the later of the two was placed by the fallback. *)
C19_OffsetPlacementsClear ==
    layoutResult # <<>>
        => \A i, j \in DOMAIN layoutResult[1] :
              (i < j /\ layoutResult[1][j].pass # "fallback")
                  => ~Overlap(layoutResult[1][i], layoutResult[1][j],
                              IF layoutResult[1][j].pass = "retry" THEN 6
                              ELSE IF layoutResult[1][j].preferDistance THEN 10
                              ELSE 0)

(* Three labels that fit: the second was placed by a candidate offset clear of
   the first, the third by the fallback on top of an earlier one. *)
C19_Witness ==
    /\ layoutResult # <<>>
    /\ Len(layoutResult[1]) = 3
    /\ \A k \in DOMAIN layoutCall[1].inputs : FitsViewport(layoutCall[1].inputs[k])
    /\ layoutResult[1][2].pass # "fallback"
    /\ ~Overlap(layoutResult[1][1], layoutResult[1][2], 0)
    /\ layoutResult[1][3].pass = "fallback"
    /\ \E i \in 1..2 : Overlap(layoutResult[1][i], layoutResult[1][3], 0)

(* C20: the output holds one position for each of the first maxLabels labels
   in processing order, in that order, and the position of every label that
   fits the viewport has padding <= x <= width - labelWidth - padding and
   padding <= y <= height - labelHeight - padding, whichever pass or fallback
   placed it. *)
C20_EveryLabelPlacedInBounds ==
    layoutResult # <<>>
        => LET call == layoutCall[1]
               out == layoutResult[1]
               count == Min(call.maxLabels, Len(call.inputs))
           IN  /\ Len(out) = count
               /\ \A k \in 1..count :
                     /\ out[k].id = sortLabels(call.inputs)[k].id
                     /\ out[k].width = sortLabels(call.inputs)[k].width
                     /\ out[k].height = sortLabels(call.inputs)[k].height
                     /\ FitsViewport(out[k])
                           => /\ Padding <= out[k].x
                              /\ out[k].x <= call.bounds.width - out[k].width - Padding
                              /\ Padding <= out[k].y
                              /\ out[k].y <= call.bounds.height - out[k].height - Padding

(* Three fitting labels out of three, one placed by each of the first pass,
   the retry pass and the fallback, the last two held at the right edge. *)
C20_Witness ==
    /\ layoutResult # <<>>
    /\ Len(layoutCall[1].inputs) = 3
    /\ Len(layoutResult[1]) = 3
    /\ \A k \in 1..3 : FitsViewport(layoutResult[1][k])
    /\ {layoutResult[1][k].pass : k \in 1..3} = {"first", "retry", "fallback"}
    /\ \E k \in 1..3 :
          /\ layoutResult[1][k].pass # "first"
          /\ layoutResult[1][k].x
                = layoutCall[1].bounds.width - layoutResult[1][k].width - Padding

-----------------------------------------------------------------------------
(* The result sanitizer of services/gemini: sanitizeLiteResult,
   sanitizeFlashResult, sanitizeDepthResult and the semantic anchors derived
   from their results.

   A JavaScript string is the sequence of its characters, so that trimming,
   lower-casing, slugifying, slicing and concatenating are computed.  A
   number is held in thousandths (0.45 is 450, the grid coordinate 500 is
   500000); Infinity, which JSON.parse returns for 1e999, is a number that is
   not finite. *)

UpperCase == <<"A", "B", "C", "D", "E", "F", "G", "H", "I", "J", "K", "L", "M",
               "N", "O", "P", "Q", "R", "S", "T", "U", "V", "W", "X", "Y", "Z">>
LowerCase == <<"a", "b", "c", "d", "e", "f", "g", "h", "i", "j", "k", "l", "m",
               "n", "o", "p", "q", "r", "s", "t", "u", "v", "w", "x", "y", "z">>
Digits == <<"0", "1", "2", "3", "4", "5", "6", "7", "8", "9">>

(* \s, of which the answers of the model use the blank and the line feed. *)
WhiteSpace == {" ", "\n"}

(* String.prototype.toLowerCase *)
toLowerCase(s) ==
    [i \in 1..Len(s) |->
        IF \E k \in DOMAIN UpperCase : UpperCase[k] = s[i]
        THEN LowerCase[CHOOSE k \in DOMAIN UpperCase : UpperCase[k] = s[i]]
        ELSE s[i]]

RECURSIVE trimStart(_)
trimStart(s) == IF s # <<>> /\ Head(s) \in WhiteSpace THEN trimStart(Tail(s)) ELSE s

RECURSIVE trimEnd(_)
trimEnd(s) ==
    IF s # <<>> /\ s[Len(s)] \in WhiteSpace THEN trimEnd(SubSeq(s, 1, Len(s) - 1)) ELSE s

(* String.prototype.trim *)
trim(s) == trimEnd(trimStart(s))

(* s.replace(/\s+/g, "-"): every maximal run of white space becomes one "-". *)
RECURSIVE slugify(_)
slugify(s) ==
    IF s = <<>> THEN <<>>
    ELSE IF Head(s) \in WhiteSpace THEN <<"-">> \o slugify(trimStart(s))
    ELSE <<Head(s)>> \o slugify(Tail(s))

(* s.slice(0, end) *)
slice(s, end) == SubSeq(s, 1, Min(end, Len(s)))

(* The template literal ${n} of a non-negative integer: its decimal digits. *)
RECURSIVE toDecimal(_)
toDecimal(n) ==
    IF n < 10 THEN <<Digits[n + 1]>> ELSE toDecimal(n \div 10) \o <<Digits[(n % 10) + 1]>>

RECURSIVE digitsValue(_)
digitsValue(s) ==
    IF s = <<>> THEN 0
    ELSE digitsValue(SubSeq(s, 1, Len(s) - 1)) * 10
            + ((CHOOSE k \in DOMAIN Digits : Digits[k] = s[Len(s)]) - 1)

(* Number(s) of a trimmed, non-empty string, in thousandths: <<v>> for a
   decimal literal (sign, digits, at most three decimals), <<>> for NaN, which
   is what every other text of the answers gives. *)
Number(s) ==
    LET negative == Head(s) = "-"
        body == IF Head(s) \in {"-", "+"} THEN Tail(s) ELSE s
        dots == {i \in DOMAIN body : body[i] = "."}
        dot == IF dots = {} THEN Len(body) + 1 ELSE CHOOSE i \in dots : TRUE
        whole == SubSeq(body, 1, dot - 1)
        fraction == SubSeq(body, dot + 1, Len(body))
        wellFormed ==
            /\ Cardinality(dots) <= 1
            /\ Len(whole) + Len(fraction) > 0
            /\ Len(whole) <= 4
            /\ Len(fraction) <= 3
            /\ \A i \in DOMAIN body : i = dot \/ \E k \in DOMAIN Digits : Digits[k] = body[i]
        padded == SubSeq(fraction \o <<"0", "0", "0">>, 1, 3)
        magnitude == digitsValue(whole) * 1000 + digitsValue(padded)
    IN  IF ~wellFormed THEN <<>>
        ELSE IF negative THEN <<0 - magnitude>> ELSE <<magnitude>>

(* Math.round of a number held in thousandths: halves go up. *)
round(milli) == (milli + 500) \div 1000

(* The values JSON.parse returns, and undefined. *)
JsUndefined == [t |-> "undefined"]
JsNull == [t |-> "null"]
JsBoolean(b) == [t |-> "boolean", b |-> b]
JsNumber(milli) == [t |-> "number", finite |-> TRUE, milli |-> milli]
JsInfinity == [t |-> "number", finite |-> FALSE, milli |-> 0]
JsString(chars) == [t |-> "string", chars |-> chars]
JsArray(items) == [t |-> "array", items |-> items]

(* An object literal: entries is the sequence of its <<name, value>> pairs. *)
JsObject(entries) ==
    [t |-> "object",
     fields |-> [name \in {entries[k][1] : k \in DOMAIN entries} |->
                    entries[CHOOSE k \in DOMAIN entries : entries[k][1] = name][2]]]

(* What reading a property of null or undefined throws. *)
TypeError == [t |-> "TypeError"]

(* Boolean(value) *)
Boolean(value) ==
    CASE value.t \in {"undefined", "null"} -> FALSE
      [] value.t = "boolean" -> value.b
      [] value.t = "number" -> ~value.finite \/ value.milli # 0
      [] value.t = "string" -> value.chars # <<>>
      [] OTHER -> TRUE

(* typeof value === "object" *)
isObject(value) == value.t \in {"null", "array", "object"}

(* value[name] for the property names the sanitizer reads (none of them is a
   property of a string, a number, a boolean or an array). *)
property(value, name) ==
    IF value.t \in {"undefined", "null"} THEN TypeError
    ELSE IF value.t = "object" /\ name \in DOMAIN value.fields THEN value.fields[name]
    ELSE JsUndefined

optionalChain_Plain(record, name) == property(record, name)

(* record?.[name] *)
optionalChain(record, name) ==
    IF record.t \in {"undefined", "null"} THEN JsUndefined ELSE property(record, name)

(* Whether one of the property reads of an expression threw. *)
Throws(reads) == \E k \in DOMAIN reads : reads[k].t = "TypeError"

isNumber(value) == value.t = "number" /\ value.finite

toConfidence(value, fallback) ==
    IF isNumber(value) THEN clamp(value.milli, 0, 1000)
    ELSE IF value.t = "string" /\ trim(value.chars) # <<>>
              /\ Number(trim(value.chars)) # <<>>
         THEN clamp(Number(trim(value.chars))[1], 0, 1000)
    ELSE fallback

toPoint(value, fallback) ==
    IF value.t # "array" \/ Len(value.items) < 2 THEN fallback
    ELSE <<IF isNumber(value.items[1]) THEN clamp(round(value.items[1].milli), 0, 1000)
           ELSE fallback[1],
           IF isNumber(value.items[2]) THEN clamp(round(value.items[2].milli), 0, 1000)
           ELSE fallback[2]>>

(* toFaceBox: <<>> is undefined. *)
toFaceBox(value) ==
    IF value.t # "array" \/ Len(value.items) < 4 THEN <<>>
    ELSE LET coordinate(i, missing) ==
                IF isNumber(value.items[i]) THEN clamp(round(value.items[i].milli), 0, 1000)
                ELSE missing
             ymin == coordinate(1, 0)
             xmin == coordinate(2, 0)
             ymax == coordinate(3, 1000)
             xmax == coordinate(4, 1000)
         IN  IF ymax <= ymin \/ xmax <= xmin THEN <<>>
             ELSE << <<ymin, xmin, ymax, xmax>> >>

toStringOrFallback(value, fallback) ==
    IF value.t = "string" /\ trim(value.chars) # <<>> THEN trim(value.chars) ELSE fallback

unknown == <<"u", "n", "k", "n", "o", "w", "n">>
faceCenter == <<"f", "a", "c", "e", "C", "e", "n", "t", "e", "r">>
neutral == <<"n", "e", "u", "t", "r", "a", "l">>

FACIAL_PART_DEFAULT_POINTS ==
    <<[part |-> <<"l", "e", "f", "t", "E", "y", "e">>,
       point |-> <<370, 330>>],
      [part |-> <<"r", "i", "g", "h", "t", "E", "y", "e">>,
       point |-> <<370, 670>>],
      [part |-> <<"l", "e", "f", "t", "E", "y", "e", "I", "n", "n", "e", "r">>,
       point |-> <<375, 430>>],
      [part |-> <<"r", "i", "g", "h", "t", "E", "y", "e", "I", "n", "n", "e", "r">>,
       point |-> <<375, 570>>],
      [part |-> <<"n", "o", "s", "e">>,
       point |-> <<520, 500>>],
      [part |-> <<"l", "e", "f", "t", "N", "o", "s", "e", "H", "o", "l", "e">>,
       point |-> <<555, 460>>],
      [part |-> <<"r", "i", "g", "h", "t", "N", "o", "s", "e", "H", "o", "l", "e">>,
       point |-> <<555, 540>>],
      [part |-> <<"m", "o", "u", "t", "h">>,
       point |-> <<700, 500>>],
      [part |-> <<"m", "o", "u", "t", "h", "L", "e", "f", "t">>,
       point |-> <<705, 410>>],
      [part |-> <<"m", "o", "u", "t", "h", "R", "i", "g", "h", "t">>,
       point |-> <<705, 590>>],
      [part |-> <<"m", "o", "u", "t", "h", "U", "p", "p", "e", "r">>,
       point |-> <<680, 500>>],
      [part |-> <<"m", "o", "u", "t", "h", "L", "o", "w", "e", "r">>,
       point |-> <<735, 500>>],
      [part |-> <<"l", "e", "f", "t", "B", "r", "o", "w">>,
       point |-> <<300, 320>>],
      [part |-> <<"r", "i", "g", "h", "t", "B", "r", "o", "w">>,
       point |-> <<300, 680>>],
      [part |-> <<"l", "e", "f", "t", "B", "r", "o", "w", "I", "n", "n", "e", "r">>,
       point |-> <<315, 430>>],
      [part |-> <<"r", "i", "g", "h", "t", "B", "r", "o", "w", "I", "n", "n", "e", "r">>,
       point |-> <<315, 570>>],
      [part |-> <<"c", "h", "i", "n">>,
       point |-> <<880, 500>>],
      [part |-> <<"f", "o", "r", "e", "h", "e", "a", "d">>,
       point |-> <<165, 500>>],
      [part |-> <<"l", "e", "f", "t", "C", "h", "e", "e", "k">>,
       point |-> <<560, 290>>],
      [part |-> <<"r", "i", "g", "h", "t", "C", "h", "e", "e", "k">>,
       point |-> <<560, 710>>],
      [part |-> <<"f", "a", "c", "e", "C", "e", "n", "t", "e", "r">>,
       point |-> <<470, 500>>]>>

NamedParts == {FACIAL_PART_DEFAULT_POINTS[k].part : k \in DOMAIN FACIAL_PART_DEFAULT_POINTS}

toFacialPart(value) ==
    LET normalized == IF value.t = "string" THEN trim(value.chars) ELSE <<>>
    IN  IF normalized \in NamedParts THEN normalized ELSE unknown

defaultPointForPart(part) ==
    LET pointOf(p) ==
            FACIAL_PART_DEFAULT_POINTS[
                CHOOSE k \in DOMAIN FACIAL_PART_DEFAULT_POINTS :
                    FACIAL_PART_DEFAULT_POINTS[k].part = p].point
    IN  IF part # unknown THEN pointOf(part) ELSE pointOf(faceCenter)

(* nearestLandmarkPart: the part of the first landmark at the least distance,
   "unknown" without landmarks. *)
nearestLandmarkPart(point, landmarks) ==
    IF landmarks = <<>> THEN unknown
    ELSE LET distance(k) == squaredDistance(point, landmarks[k].point)
             best == CHOOSE k \in DOMAIN landmarks :
                        /\ \A j \in DOMAIN landmarks : distance(k) <= distance(j)
                        /\ \A j \in 1..(k - 1) : distance(j) > distance(k)
         IN  landmarks[best].facialPart

buildFastAnchors_NoOrdinal(emotions, landmarks) ==
    [i \in DOMAIN emotions |->
        [id |-> <<"e", "m", "o", "-">> \o slugify(toLowerCase(emotions[i].emotion)) \o <<"-">>
                    \o emotions[i].facialPart,
         label |-> emotions[i].emotion,
         kind |-> "emotion",
         facialPart |-> emotions[i].facialPart,
         point |-> emotions[i].point,
         confidence |-> emotions[i].confidence,
         intensity |-> emotions[i].intensity,
         explanation |-> emotions[i].explanation]]

(* buildFastAnchors; duplicateCounters.get(baseKey) ?? 0 is, when the map
   reaches an emotion, the number of emotions before it with its baseKey. *)
buildFastAnchors(emotions, landmarks) ==
    LET resolvedPart(i) ==
            IF emotions[i].facialPart = unknown
            THEN nearestLandmarkPart(emotions[i].point, landmarks)
            ELSE emotions[i].facialPart
        emotionKey(i) == slugify(toLowerCase(emotions[i].emotion))
        baseKey(i) == emotionKey(i) \o <<"-">> \o resolvedPart(i)
        seen(i) == Cardinality({j \in 1..(i - 1) : baseKey(j) = baseKey(i)})
        emotionAnchors ==
            [i \in DOMAIN emotions |->
                [id |-> <<"e", "m", "o", "-">> \o baseKey(i) \o <<"-">> \o toDecimal(seen(i) + 1),
                 label |-> emotions[i].emotion,
                 kind |-> "emotion",
                 facialPart |-> resolvedPart(i),
                 point |-> emotions[i].point,
                 confidence |-> emotions[i].confidence,
                 intensity |-> emotions[i].intensity,
                 explanation |-> emotions[i].explanation]]
        landmarkAnchors ==
            [i \in 1..Min(8, Len(landmarks)) |->
                [id |-> <<"l", "m", "-">> \o toDecimal(i - 1) \o <<"-">>
                            \o slugify(toLowerCase(landmarks[i].name)),
                 label |-> landmarks[i].name,
                 kind |-> "landmark",
                 facialPart |-> landmarks[i].facialPart,
                 point |-> landmarks[i].point,
                 confidence |-> landmarks[i].confidence]]
    IN  emotionAnchors \o landmarkAnchors

buildDepthAnchors(insights) ==
    [i \in DOMAIN insights |->
        [id |-> <<"d", "e", "p", "t", "h", "-">> \o toDecimal(i - 1) \o <<"-">>
                    \o slugify(toLowerCase(insights[i].keyword)),
         label |-> insights[i].keyword,
         kind |-> "depth",
         facialPart |-> insights[i].facialPart,
         point |-> insights[i].point,
         confidence |-> insights[i].confidence]]

PRIMARY_EMOTION_MAX_CHARS == 64

(* What a sanitize*Result call does: it returns a value, or it throws. *)
Returns(value) == [threw |-> FALSE, value |-> value]
ThrowsTypeError == [threw |-> TRUE, value |-> <<>>]

(* toDefaultLiteResult, toDefaultFlashResult, toDefaultDepthResult: the fields
   computed from the answer (model, frameId and capturedAt are copied from the
   arguments of the call). *)
toDefaultLiteResult ==
    [faceDetected |-> FALSE,
     confidence |-> 0,
     primaryEmotion |-> neutral,
     primaryConfidence |-> 0,
     moodSentence |-> [text |-> <<"T", "h", "e", " ", "o", "b", "s", "e", "r", "v", "e", "d", " ", "m", "o", "o", "d", " ", "a", "p", "p", "e", "a", "r", "s", " ", "n", "e", "u", "t", "r", "a", "l", " ", "w", "i", "t", "h", " ", "l", "o", "w", " ", "c", "o", "n", "f", "i", "d", "e", "n", "c", "e", ".">>],
     candidates |-> <<>>,
     faceBox |-> <<>>,
     headPose |-> <<>>]

toDefaultFlashResult ==
    [faceDetected |-> FALSE,
     confidence |-> 0,
     faceBox |-> <<>>,
     headPose |-> <<>>,
     emotions |-> <<>>,
     landmarks |-> <<>>,
     semanticAnchors |-> <<>>]

toDefaultDepthResult ==
    [confidence |-> 0,
     summary |-> <<>>,
     insights |-> <<>>,
     semanticAnchors |-> <<>>]

(* The headPose of the lite and the flash result: <<>> is undefined. *)
toHeadPose(source) ==
    LET headPose == property(source, "headPose")
        angle(name) ==
            IF isNumber(property(headPose, name))
            THEN clamp(property(headPose, name).milli, -90000, 90000)
            ELSE 0
    IN  IF Boolean(headPose) /\ isObject(headPose)
        THEN <<[pitch |-> angle("pitch"), yaw |-> angle("yaw"), roll |-> angle("roll")]>>
        ELSE <<>>

listOf_None(value, end) == <<>>

(* someArray.slice(0, end) of a field that Array.isArray accepts, <<>> otherwise. *)
listOf(value, end) == IF value.t = "array" THEN slice(value.items, end) ELSE <<>>

sanitizeLiteResult(raw) ==
    IF ~Boolean(raw) \/ ~isObject(raw) THEN Returns(toDefaultLiteResult)
    ELSE
    LET source == raw
        faceBox == toFaceBox(property(source, "faceBox"))
        faceDetected == Boolean(property(source, "faceDetected")) \/ faceBox # <<>>
        frameConfidence ==
            toConfidence(property(source, "confidence"), IF faceDetected THEN 700 ELSE 100)
        items == listOf(property(source, "candidates"), 6)
        reads(record) == <<optionalChain(record, "emotion"), optionalChain(record, "confidence")>>
        candidates ==
            [i \in DOMAIN items |->
                [emotion |-> toStringOrFallback(reads(items[i])[1], neutral),
                 confidence |-> toConfidence(reads(items[i])[2], 450)]]
        given == toStringOrFallback(property(source, "primaryEmotion"), <<>>)
        primaryEmotion ==
            slice(IF given # <<>> THEN given
                  ELSE IF candidates # <<>> /\ candidates[1].emotion # <<>>
                       THEN candidates[1].emotion
                  ELSE neutral,
                  PRIMARY_EMOTION_MAX_CHARS)
        matching == {i \in DOMAIN candidates :
                        trim(toLowerCase(candidates[i].emotion))
                            = trim(toLowerCase(primaryEmotion))}
        primaryConfidence ==
            toConfidence(property(source, "primaryConfidence"),
                         IF matching # {}
                         THEN candidates[CHOOSE i \in matching : \A j \in matching : i <= j]
                                .confidence
                         ELSE IF candidates # <<>> THEN candidates[1].confidence
                         ELSE frameConfidence)
        sentence == slice(toStringOrFallback(property(source, "moodSentence"), <<>>), 180)
        moodSentence ==
            IF sentence # <<>> THEN [text |-> sentence]
            ELSE [text |-> <<"T", "h", "e", " ", "o", "b", "s", "e", "r", "v", "e", "d", " ", "m", "o", "o", "d", " ", "a", "p", "p", "e", "a", "r", "s", " ">> \o primaryEmotion \o <<" ", "w", "i", "t", "h", " ">>
                             \o toDecimal((primaryConfidence + 5) \div 10)
                             \o <<"%", " ", "c", "o", "n", "f", "i", "d", "e", "n", "c", "e", ".">>]
    IN  IF \E i \in DOMAIN items : Throws(reads(items[i])) THEN ThrowsTypeError
        ELSE Returns([faceDetected |-> faceDetected,
                      confidence |-> frameConfidence,
                      primaryEmotion |-> primaryEmotion,
                      primaryConfidence |-> primaryConfidence,
                      moodSentence |-> moodSentence,
                      candidates |-> candidates,
                      faceBox |-> faceBox,
                      headPose |-> toHeadPose(source)])

sanitizeFlashResult(raw) ==
    IF ~Boolean(raw) \/ ~isObject(raw) THEN Returns(toDefaultFlashResult)
    ELSE
    LET source == raw
        landmarks == <<>>
        items == listOf(property(source, "emotions"), 6)
        reads(record) ==
            <<optionalChain(record, "facialPart"), optionalChain(record, "emotion"),
              optionalChain(record, "intensity"), optionalChain(record, "confidence"),
              optionalChain(record, "point"), optionalChain(record, "explanation")>>
        facialPart(record) ==
            IF toFacialPart(reads(record)[1]) = unknown THEN faceCenter
            ELSE toFacialPart(reads(record)[1])
        emotions ==
            [i \in DOMAIN items |->
                [emotion |-> toStringOrFallback(reads(items[i])[2], neutral),
                 intensity |-> toStringOrFallback(reads(items[i])[3], <<"l", "o", "w">>),
                 confidence |-> toConfidence(reads(items[i])[4], 400),
                 point |-> toPoint(reads(items[i])[5], defaultPointForPart(facialPart(items[i]))),
                 facialPart |-> facialPart(items[i]),
                 explanation |-> slice(toStringOrFallback(reads(items[i])[6], <<>>), 120)]]
        faceBox == toFaceBox(property(source, "faceBox"))
        faceDetected ==
            Boolean(property(source, "faceDetected")) \/ faceBox # <<>> \/ Len(landmarks) > 0
    IN  IF \E i \in DOMAIN items : Throws(reads(items[i])) THEN ThrowsTypeError
        ELSE Returns([faceDetected |-> faceDetected,
                      confidence |-> toConfidence(property(source, "confidence"),
                                                  IF faceDetected THEN 600 ELSE 100),
                      faceBox |-> faceBox,
                      headPose |-> toHeadPose(source),
                      emotions |-> emotions,
                      landmarks |-> landmarks,
                      semanticAnchors |-> buildFastAnchors(emotions, landmarks)])

sanitizeDepthResult(raw) ==
    IF ~Boolean(raw) \/ ~isObject(raw) THEN Returns(toDefaultDepthResult)
    ELSE
    LET source == raw
        items == listOf(property(source, "insights"), 10)
        reads(record) ==
            <<optionalChain(record, "keyword"), optionalChain(record, "rationale"),
              optionalChain(record, "medicalInterpretation"),
              optionalChain(record, "confidence"), optionalChain(record, "facialPart"),
              optionalChain(record, "point")>>
        insights ==
            [i \in DOMAIN items |->
                [keyword |-> toStringOrFallback(reads(items[i])[1], neutral),
                 rationale |-> toStringOrFallback(reads(items[i])[2], <<>>),
                 medicalInterpretation |-> toStringOrFallback(reads(items[i])[3], <<>>),
                 confidence |-> toConfidence(reads(items[i])[4], 340),
                 facialPart |-> toFacialPart(reads(items[i])[5]),
                 point |-> toPoint(reads(items[i])[6], <<500, 500>>)]]
    IN  IF \E i \in DOMAIN items : Throws(reads(items[i])) THEN ThrowsTypeError
        ELSE Returns([confidence |-> toConfidence(property(source, "confidence"),
                                                  IF Len(insights) > 0 THEN 560 ELSE 100),
                      summary |-> toStringOrFallback(property(source, "summary"), <<>>),
                      insights |-> insights,
                      semanticAnchors |-> buildDepthAnchors(insights)])

-----------------------------------------------------------------------------
(* The answers the sanitizer is applied to *)

(* The length of a text longer than every slice of the sanitizer keeps of a
   primary emotion, and of a list longer than every list it keeps. *)
LongTextLength == 70
LongListLength == 11

LongText == [i \in 1..LongTextLength |-> "a"]

(* The alternatives of one field of an answer: absent, or one of the values. *)
Field(name, values) == {<<>>} \cup {<< <<name, values[k]>> >> : k \in DOMAIN values}

(* What is not an object with fields: null, undefined, primitives, arrays. *)
NonObjects ==
    {JsNull, JsUndefined, JsNumber(0), JsNumber(5000), JsString(<<"H", "a", "p", "p", "y">>),
     JsBoolean(TRUE), JsArray(<<JsNull>>)}

ValidFaceBox == JsArray(<<JsNumber(100000), JsNumber(200000), JsNumber(800000), JsNumber(700000)>>)
InvertedFaceBox == JsArray(<<JsNumber(800000), JsNumber(200000), JsNumber(100000), JsNumber(700000)>>)
WideFaceBox == JsArray(<<JsNumber(-50000), JsNull, JsNumber(2000600), JsString(<<"x">>)>>)

TiltedHeadPose ==
    JsObject(<< <<"pitch", JsNumber(120000)>>, <<"yaw", JsNumber(-100500)>>,
                <<"roll", JsString(<<"x">>)>> >>)

LiteCandidates ==
    <<JsString(<<"n", "o", "n", "e">>),
      JsArray(<<JsNull, JsNumber(3000),
                JsObject(<< <<"emotion", JsString(<<" ", "h", "a", "p", "p", "y", " ">>)>>,
                            <<"confidence", JsString(<<"0", ".", "8">>)>> >>)>>),
      JsArray(<<JsObject(<< <<"emotion", JsString(<<"S", "a", "d">>)>>,
                            <<"confidence", JsNumber(300)>> >>),
                JsObject(<< <<"emotion", JsString(<<"H", "A", "P", "P", "Y">>)>>,
                            <<"confidence", JsNumber(900)>> >>)>>),
      JsArray(<<JsObject(<< <<"emotion", JsString(LongText)>>,
                            <<"confidence", JsNumber(200)>> >>),
                JsObject(<< <<"emotion", JsString([i \in 1..PRIMARY_EMOTION_MAX_CHARS |-> "A"])>>,
                            <<"confidence", JsNumber(600)>> >>)>>),
      JsArray([i \in 1..LongListLength |->
                  IF i % 2 = 0 THEN JsNull
                  ELSE JsObject(<< <<"emotion", JsNumber(1000)>>,
                                   <<"confidence", JsNumber(1700)>> >>)])>>

LiteAnswers ==
    NonObjects \cup
    {JsObject(primaryEmotion \o primaryConfidence \o confidence \o faceDetected \o faceBox
                 \o candidates \o headPose) :
        primaryEmotion \in Field("primaryEmotion",
            <<JsString(<<>>), JsString(<<" ", " ">>), JsNumber(7000), JsString(<<"H", "a", "p", "p", "y">>),
              JsString(LongText)>>),
        primaryConfidence \in Field("primaryConfidence",
            <<JsNumber(1500), JsString(<<" ", "0", ".", "5">>), JsString(<<"a", "b", "c">>), JsInfinity>>),
        confidence \in Field("confidence", <<JsNumber(7000)>>),
        faceDetected \in Field("faceDetected", <<JsBoolean(TRUE)>>),
        faceBox \in Field("faceBox", <<ValidFaceBox, WideFaceBox>>),
        candidates \in Field("candidates", LiteCandidates),
        headPose \in Field("headPose", <<TiltedHeadPose, JsArray(<<>>)>>)}

FlashEmotions ==
    <<JsString(<<"n", "o", "n", "e">>),
      JsArray(<<JsNull, JsNumber(5000),
                JsObject(<< <<"emotion", JsString(<<" ", "J", "o", "y", " ">>)>>,
                            <<"facialPart", JsString(<<" ", "m", "o", "u", "t", "h", " ">>)>>,
                            <<"confidence", JsNumber(2000)>>,
                            <<"point", JsArray(<<JsNumber(1200400), JsNumber(-3000)>>)>> >>),
                JsObject(<< <<"facialPart", JsString(<<"e", "l", "b", "o", "w">>)>>,
                            <<"point", JsString(<<"x">>)>> >>),
                JsObject(<< <<"point", JsArray(<<JsNull, JsNumber(400500)>>)>> >>)>>),
      JsArray([i \in 1..LongListLength |->
                  IF i % 2 = 0 THEN JsNull
                  ELSE JsObject(<< <<"emotion", JsString(<<"J", "o", "y">>)>>,
                                   <<"confidence", JsInfinity>> >>)])>>

FlashAnswers ==
    NonObjects \cup
    {JsObject(confidence \o faceDetected \o faceBox \o emotions \o headPose) :
        confidence \in Field("confidence", <<JsNumber(900), JsNumber(-7000)>>),
        faceDetected \in Field("faceDetected", <<JsBoolean(TRUE)>>),
        faceBox \in Field("faceBox", <<InvertedFaceBox, WideFaceBox>>),
        emotions \in Field("emotions", FlashEmotions),
        headPose \in Field("headPose", <<TiltedHeadPose>>)}

DepthInsights ==
    <<JsString(<<"n", "o", "n", "e">>),
      JsArray(<<JsNull,
                JsObject(<< <<"keyword", JsString(<<"F", "a", "t", "i", "g", "u", "e">>)>>,
                            <<"facialPart", JsString(<<"f", "o", "r", "e", "h", "e", "a", "d">>)>>,
                            <<"confidence", JsString(<<"1", ".", "2">>)>>,
                            <<"point", JsArray(<<JsNumber(-400), JsNumber(999600)>>)>> >>),
                JsObject(<< <<"keyword", JsNull>>,
                            <<"point", JsArray(<<JsNumber(300000)>>)>> >>)>>),
      JsArray([i \in 1..LongListLength |->
                  IF i % 2 = 0 THEN JsNull
                  ELSE JsObject(<< <<"keyword", JsString(<<"S", "t", "r", "e", "s", "s">>)>>,
                                   <<"confidence", JsNumber(-1000)>> >>)])>>

DepthAnswers ==
    NonObjects \cup
    {JsObject(confidence \o summary \o insights) :
        confidence \in Field("confidence", <<JsNumber(900), JsNumber(7000), JsString(<<"h", "i", "g", "h">>)>>),
        summary \in Field("summary", <<JsString(<<" ", "c", "a", "l", "m", " ">>), JsNumber(1000)>>),
        insights \in Field("insights", DepthInsights)}

(* Findings of the flash and the pro lane: two labels that differ in case
   only on one part, one of them on another part too, a label with white
   space, and a null item. *)
Finding(lane, label, part) ==
    JsObject(<< <<IF lane = "pro" THEN "keyword" ELSE "emotion", JsString(label)>>,
                <<"facialPart", JsString(part)>> >>)

Findings(lane) ==
    {Finding(lane, <<"H", "a", "p", "p", "y">>, <<"m", "o", "u", "t", "h">>), Finding(lane, <<"h", "a", "p", "p", "y">>, <<"m", "o", "u", "t", "h">>),
     Finding(lane, <<"H", "a", "p", "p", "y">>, <<"n", "o", "s", "e">>), Finding(lane, <<"s", "o", " ", " ", "s", "a", "d">>, <<"m", "o", "u", "t", "h">>), JsNull}

(* The number of findings of one answer of a pair of answers. *)
MaxFindings == 2

FindingLists(lane) == UNION {[1..n -> Findings(lane)] : n \in 0..MaxFindings}

FindingAnswer(lane, findings) ==
    JsObject(<< <<IF lane = "pro" THEN "insights" ELSE "emotions", JsArray(findings)>> >>)

(* Flash answers with a landmark list and a finding that carries a point: the
   finding names no part, the part "unknown", a part that is none, or the
   nose. *)
ResponseLandmarks ==
    JsArray(<<JsObject(<< <<"name", JsString(<<"b", "r", "o", "w">>)>>,
                          <<"facialPart", JsString(<<"l", "e", "f", "t", "B", "r", "o", "w">>)>>,
                          <<"point", JsArray(<<JsNumber(300000), JsNumber(400000)>>)>> >>),
              JsObject(<< <<"name", JsString(<<"l", "i", "p">>)>>,
                          <<"facialPart", JsString(<<"m", "o", "u", "t", "h">>)>>,
                          <<"point", JsArray(<<JsNumber(690000), JsNumber(510000)>>)>> >>)>>)

LandmarkedAnswers ==
    {JsObject(<< <<"emotions",
                   JsArray(<<JsObject(<< <<"emotion", JsString(<<"J", "o", "y">>)>>,
                                         <<"point", JsArray(<<JsNumber(700000),
                                                              JsNumber(500000)>>)>> >>
                                      \o part)>>)>> >> \o landmarks) :
        part \in Field("facialPart", <<JsString(<<"u", "n", "k", "n", "o", "w", "n">>), JsString(<<"e", "l", "b", "o", "w">>),
                                       JsString(<<"n", "o", "s", "e">>)>>),
        landmarks \in Field("landmarks", <<ResponseLandmarks>>)}

(* A call of one sanitizer on one answer, or on two answers of one lane one
   after the other. *)
SanitizeCalls ==
    {[lane |-> "lite", raws |-> <<raw>>] : raw \in LiteAnswers}
    \cup {[lane |-> "flash", raws |-> <<raw>>] : raw \in FlashAnswers}
    \cup {[lane |-> "flash", raws |-> <<raw>>] : raw \in LandmarkedAnswers}
    \cup {[lane |-> "pro", raws |-> <<raw>>] : raw \in DepthAnswers}
    \cup UNION {{[lane |-> lane, raws |-> <<FindingAnswer(lane, first),
                                             FindingAnswer(lane, second)>>] :
                    first \in FindingLists(lane), second \in FindingLists(lane)} :
                lane \in {"flash", "pro"}}

InitSanitize ==
    /\ InitServer
    /\ InitPage
    /\ calls = <<>>
    /\ InitEngine
    /\ InitQuality
    /\ InitRoutes
    /\ InitSmoother
    /\ InitOverlayRefs
    /\ sanitizeCall \in {<<call>> : call \in SanitizeCalls}
    /\ sanitizeResult = <<>>
    /\ timeoutCall = <<>>
    /\ timeoutResult = <<>>

Sanitized(lane, result) ==
    /\ sanitizeCall # <<>>
    /\ sanitizeCall[1].lane = lane
    /\ sanitizeResult = <<>>
    /\ sanitizeResult' = result
    /\ UNCHANGED <<now, serverVars, pageVars, engine, bindings, projected, lastCall,
                   layoutCall, layoutResult, sanitizeCall, timeoutCall, timeoutResult,
                   manager, reported, requests, modelCalls, authDb, verifies, attempts, smoother, smoothed, overlayRefs>>

(* sanitizeLiteResult(safeJsonParse(text), options, model) *)
SanitizeLite ==
    Sanitized("lite", [k \in DOMAIN sanitizeCall[1].raws |->
                            sanitizeLiteResult(sanitizeCall[1].raws[k])])

(* sanitizeFlashResult(safeJsonParse(text), options, model) *)
SanitizeFlash ==
    Sanitized("flash", [k \in DOMAIN sanitizeCall[1].raws |->
                            sanitizeFlashResult(sanitizeCall[1].raws[k])])

(* sanitizeDepthResult(safeJsonParse(text), options, model) *)
SanitizeDepth ==
    Sanitized("pro", [k \in DOMAIN sanitizeCall[1].raws |->
                            sanitizeDepthResult(sanitizeCall[1].raws[k])])

NextSanitize ==
    \/ SanitizeLite
    \/ SanitizeFlash
    \/ SanitizeDepth

SpecSanitize == InitSanitize /\ [][NextSanitize]_vars

-----------------------------------------------------------------------------
(* Properties of the sanitizer *)

InUnit(confidence) == confidence \in 0..1000
OnGrid(coordinate) == coordinate \in 0..1000

BoundedHeadPose(headPose) ==
    \A k \in DOMAIN headPose :
        /\ headPose[k].pitch \in -90000..90000
        /\ headPose[k].yaw \in -90000..90000
        /\ headPose[k].roll \in -90000..90000

BoundedFaceBox(faceBox) ==
    \A k \in DOMAIN faceBox : \A i \in 1..4 : OnGrid(faceBox[k][i])

BoundedFindings(findings) ==
    \A i \in DOMAIN findings :
        /\ InUnit(findings[i].confidence)
        /\ OnGrid(findings[i].point[1])
        /\ OnGrid(findings[i].point[2])

WithinBounds(lane, result) ==
    CASE lane = "lite" ->
            /\ InUnit(result.confidence)
            /\ InUnit(result.primaryConfidence)
            /\ Len(result.candidates) <= 6
            /\ \A i \in DOMAIN result.candidates : InUnit(result.candidates[i].confidence)
            /\ BoundedFaceBox(result.faceBox)
            /\ BoundedHeadPose(result.headPose)
      [] lane = "flash" ->
            /\ InUnit(result.confidence)
            /\ Len(result.emotions) <= 6
            /\ BoundedFindings(result.emotions)
            /\ BoundedFindings(result.semanticAnchors)
            /\ BoundedFaceBox(result.faceBox)
            /\ BoundedHeadPose(result.headPose)
      [] lane = "pro" ->
            /\ InUnit(result.confidence)
            /\ Len(result.insights) <= 10
            /\ BoundedFindings(result.insights)
            /\ BoundedFindings(result.semanticAnchors)

(* C21: whatever the raw answer (null, a primitive, an empty object, an
   array, fields of the wrong type or out of range, null list items), each
   sanitizer returns without throwing, and in its result every confidence is
   in [0,1], every point and face-box coordinate in [0,1000], every head-pose
   angle in [-90,90], with at most 6 candidates, 6 emotions, 10 insights. *)
C21_SanitizedWithinBounds ==
    \A k \in DOMAIN sanitizeResult :
        /\ ~sanitizeResult[k].threw
        /\ WithinBounds(sanitizeCall[1].lane, sanitizeResult[k].value)

(* A list of more than 10 insights with null items and a confidence below 0
   has been sanitized. *)
C21_Witness ==
    /\ sanitizeResult # <<>>
    /\ sanitizeCall[1].lane = "pro"
    /\ sanitizeCall[1].raws[1].t = "object"
    /\ "insights" \in DOMAIN sanitizeCall[1].raws[1].fields
    /\ sanitizeCall[1].raws[1].fields["insights"].t = "array"
    /\ LET items == sanitizeCall[1].raws[1].fields["insights"].items
       IN  /\ Len(items) > 10
           /\ \E i \in DOMAIN items : items[i] = JsNull
           /\ \E i \in DOMAIN items :
                /\ items[i].t = "object"
                /\ items[i].fields["confidence"].milli < 0
    /\ Len(sanitizeResult[1].value.insights) = 10

(* The lite answers of a call that carry no valid primaryEmotion: the field
   is missing, not a string, or blank. *)
WithoutPrimaryEmotion ==
    {k \in DOMAIN sanitizeResult :
        /\ sanitizeCall[1].lane = "lite"
        /\ toStringOrFallback(optionalChain(sanitizeCall[1].raws[k], "primaryEmotion"), <<>>)
                = <<>>}

(* C22 as stated: a lite answer without a valid primaryEmotion is sanitized
   to primaryEmotion "neutral" and primaryConfidence 0, whatever its other
   fields are. *)
C22_NeutralWithZeroConfidence ==
    \A k \in WithoutPrimaryEmotion :
        /\ sanitizeResult[k].value.primaryEmotion = <<"n", "e", "u", "t", "r", "a", "l">>
        /\ sanitizeResult[k].value.primaryConfidence = 0

(* C22, amended: a lite answer without a valid primaryEmotion is sanitized
   to "neutral" with confidence 0 when the answer is not an object at all.
   When it is an object, the primary emotion is that of its first candidate
   (its first 64 characters), "neutral" when it has no candidate, and the
   primary confidence is the answer's own primaryConfidence when that is a
   number or a numeric text (clamped to [0,1]), otherwise the confidence of
   the first of the six kept candidates whose emotion is that primary emotion
   up to case and surrounding white space, otherwise that of the first
   candidate, otherwise the frame confidence of the result. *)
C22_NeutralWhenNothingNamesAnEmotion ==
    \A k \in WithoutPrimaryEmotion :
        LET raw == sanitizeCall[1].raws[k]
            result == sanitizeResult[k].value
            given == optionalChain(raw, "candidates")
            kept == IF given.t = "array" THEN 1..Min(6, Len(given.items)) ELSE {}
            emotionOf(i) ==
                toStringOrFallback(optionalChain(given.items[i], "emotion"), <<"n", "e", "u", "t", "r", "a", "l">>)
            confidenceOf(i) == toConfidence(optionalChain(given.items[i], "confidence"), 450)
            same == {i \in kept : trim(toLowerCase(emotionOf(i)))
                                    = trim(toLowerCase(result.primaryEmotion))}
            chosen == IF same = {} THEN 1 ELSE CHOOSE i \in same : \A j \in same : i <= j
        IN  IF ~Boolean(raw) \/ raw.t \notin {"array", "object"}
            THEN /\ result.primaryEmotion = <<"n", "e", "u", "t", "r", "a", "l">>
                 /\ result.primaryConfidence = 0
            ELSE /\ result.primaryEmotion =
                        IF kept = {} THEN <<"n", "e", "u", "t", "r", "a", "l">> ELSE slice(emotionOf(1), 64)
                 /\ result.primaryConfidence =
                        toConfidence(property(raw, "primaryConfidence"),
                                     IF kept = {} THEN result.confidence
                                     ELSE confidenceOf(chosen))

(* An empty object, a face box apart, has been sanitized to "neutral" with
   the frame confidence, and an object whose first candidate names an emotion
   to that emotion. *)
C22_Witness ==
    \E k \in WithoutPrimaryEmotion :
        /\ sanitizeCall[1].raws[k].t = "object"
        /\ "candidates" \notin DOMAIN sanitizeCall[1].raws[k].fields
        /\ "primaryConfidence" \notin DOMAIN sanitizeCall[1].raws[k].fields
        /\ sanitizeResult[k].value.primaryEmotion = <<"n", "e", "u", "t", "r", "a", "l">>
        /\ sanitizeResult[k].value.primaryConfidence = 100

(* The semantic anchors derived from the k-th answer of the call. *)
AnchorsOf(k) ==
    IF sanitizeCall[1].lane = "lite" THEN <<>> ELSE sanitizeResult[k].value.semanticAnchors

(* C23: within one sanitized response the ids of the derived semantic
   anchors are pairwise distinct, also when one label and facial part occur
   several times in the response. *)
C23_AnchorIdsDistinct ==
    \A k \in DOMAIN sanitizeResult :
        \A i, j \in DOMAIN AnchorsOf(k) :
            i # j => AnchorsOf(k)[i].id # AnchorsOf(k)[j].id

(* A flash answer with the same label on the same part twice has been
   sanitized: the two anchors carry the ordinals 1 and 2. *)
C23_Witness ==
    /\ sanitizeResult # <<>>
    /\ sanitizeCall[1].lane = "flash"
    /\ Len(AnchorsOf(1)) = 2
    /\ AnchorsOf(1)[1].label = AnchorsOf(1)[2].label
    /\ AnchorsOf(1)[1].facialPart = AnchorsOf(1)[2].facialPart
    /\ AnchorsOf(1)[1].id = <<"e", "m", "o", "-", "h", "a", "p", "p", "y", "-", "m", "o", "u", "t", "h", "-", "1">>
    /\ AnchorsOf(1)[2].id = <<"e", "m", "o", "-", "h", "a", "p", "p", "y", "-", "m", "o", "u", "t", "h", "-", "2">>

(* The anchors of one response that carry the label and the facial part of
   its i-th anchor. *)
SameFinding(anchors, label, part) ==
    {i \in DOMAIN anchors : anchors[i].label = label /\ anchors[i].facialPart = part}

(* C24: when two responses of one lane each contain exactly one finding
   with a given label and facial part, that finding gets the same anchor id
   in both, whatever its position in each list and whatever the other
   findings are. *)
C24_SameFindingSameId ==
    Len(sanitizeResult) = 2 =>
        \A i \in DOMAIN AnchorsOf(1), j \in DOMAIN AnchorsOf(2) :
            LET label == AnchorsOf(1)[i].label
                part == AnchorsOf(1)[i].facialPart
            IN  /\ SameFinding(AnchorsOf(1), label, part) = {i}
                /\ SameFinding(AnchorsOf(2), label, part) = {j}
                => AnchorsOf(1)[i].id = AnchorsOf(2)[j].id

-----------------------------------------------------------------------------
(* The per-attempt timeout of the analyze* functions, as a function of their
   arguments *)

(* options.timeoutMs of a caller that supplies one: below every lane timeout,
   and above the ceiling of a pro call with a video clip. *)
ShortExplicitTimeout == 5000
LongExplicitTimeout == 80000

(* 0 stands for a call without options.timeoutMs. *)
ExplicitTimeouts == {0, ShortExplicitTimeout, LongExplicitTimeout}

(* base64Image.length: small, large, and on both sides of the two steps of
   computeTimeoutMs (approxBytes > 240000 from 320001 characters on,
   approxBytes > 380000 from 506667 on). *)
SteppedImageLengths ==
    {SmallImageLength, 320000, 320001, 400000, 506666, 506667, LargeImageLength}

(* Two calls of one lane that differ in the size of the image only. *)
TimeoutCalls ==
    {[lane |-> lane, timeoutMs |-> timeoutMs, smaller |-> smaller, larger |-> larger,
      videoClip |-> videoClip] :
        lane \in LaneName, timeoutMs \in ExplicitTimeouts,
        smaller \in SteppedImageLengths, larger \in SteppedImageLengths,
        videoClip \in BOOLEAN}

InitTimeout ==
    /\ InitServer
    /\ InitPage
    /\ calls = <<>>
    /\ InitEngine
    /\ InitQuality
    /\ InitRoutes
    /\ InitSmoother
    /\ InitOverlayRefs
    /\ sanitizeCall = <<>>
    /\ sanitizeResult = <<>>
    /\ timeoutCall \in {<<call>> : call \in {c \in TimeoutCalls : c.smaller <= c.larger}}
    /\ timeoutResult = <<>>

(* const timeoutMs = computeTimeoutMs(options.timeoutMs, ...) of
   analyzeLitePrimaryEmotion and analyzeFlashInsights, baseTimeoutMs and
   timeoutMs of analyzeDepthInsights: what generateWithLaneFallback is given. *)
ComputeTimeout ==
    /\ timeoutCall # <<>>
    /\ timeoutResult = <<>>
    /\ LET call == timeoutCall[1]
       IN  timeoutResult' =
             <<[smaller |-> laneTimeoutMs(call.lane, call.timeoutMs, call.smaller,
                                          call.videoClip),
                larger |-> laneTimeoutMs(call.lane, call.timeoutMs, call.larger,
                                         call.videoClip)]>>
    /\ UNCHANGED <<now, serverVars, pageVars, engine, bindings, projected, lastCall,
                   layoutCall, layoutResult, sanitizeCall, sanitizeResult, timeoutCall,
                   manager, reported, requests, modelCalls, authDb, verifies, attempts, smoother, smoothed, overlayRefs>>

NextTimeout == ComputeTimeout

SpecTimeout == InitTimeout /\ [][NextTimeout]_vars

(* The fourth argument of the computeTimeoutMs call of each lane. *)
capTimeoutMs(lane) ==
    CASE lane = "lite" -> 9000 [] lane = "flash" -> 16000 [] lane = "pro" -> 58000

(* C25: without an explicit timeout, the per-attempt timeout does not
   decrease when the base64 payload grows, and it never exceeds the hard cap
   of the lane (lite 9000 ms, flash 16000 ms, pro 58000 ms). *)
C25_TimeoutGrowsUpToCap ==
    \A k \in DOMAIN timeoutResult :
        timeoutCall[1].timeoutMs = 0 =>
            /\ timeoutResult[k].smaller <= timeoutResult[k].larger
            /\ timeoutResult[k].larger <= capTimeoutMs(timeoutCall[1].lane)
            /\ timeoutResult[k].smaller <= capTimeoutMs(timeoutCall[1].lane)

(* C26: with an explicit timeoutMs, the per-attempt timeout handed to the
   backend call is that value on every lane, whatever the size of the payload
   and whether or not a video clip is attached. *)
C26_ExplicitTimeoutApplied ==
    \A k \in DOMAIN timeoutResult :
        timeoutCall[1].timeoutMs > 0 =>
            /\ timeoutResult[k].smaller = timeoutCall[1].timeoutMs
            /\ timeoutResult[k].larger = timeoutCall[1].timeoutMs

-----------------------------------------------------------------------------
(* AdaptiveQualityManager *)

RECURSIVE Sum(_)
Sum(values) == IF values = <<>> THEN 0 ELSE Head(values) + Sum(Tail(values))

(* average(values) > threshold, for samples in whole milliseconds: the
   average of no sample is 0. *)
averageExceeds(values, threshold) ==
    IF values = <<>> THEN 0 > threshold ELSE Sum(values) > threshold * Len(values)

appendWindow_NoShift(list, value, max) == Append(list, value)

appendWindow(list, value, max) ==
    LET next == Append(list, value)
    IN  IF Len(next) > max THEN Tail(next) ELSE next

recomputeTier(m) ==
    [m EXCEPT !.tier =
        IF \/ averageExceeds(m.fastRtts, 900)
           \/ averageExceeds(m.depthRtts, 3500)
           \/ averageExceeds(m.frameTimes, 26) THEN "low"
        ELSE IF \/ averageExceeds(m.fastRtts, 520)
                \/ averageExceeds(m.depthRtts, 2100)
                \/ averageExceeds(m.frameTimes, 19) THEN "balanced"
        ELSE "high"]

(* Number.isFinite(sample) && sample > 0 *)
validSample(sample) == sample.finite /\ sample.ms > 0

reportFastRtt(m, rttMs) ==
    IF validSample(rttMs)
    THEN recomputeTier([m EXCEPT !.fastRtts = appendWindow(m.fastRtts, rttMs.ms, 24)])
    ELSE m

reportDepthRtt(m, rttMs) ==
    IF validSample(rttMs)
    THEN recomputeTier([m EXCEPT !.depthRtts = appendWindow(m.depthRtts, rttMs.ms, 24)])
    ELSE m

reportFrameTime(m, frameMs) ==
    IF validSample(frameMs)
    THEN recomputeTier([m EXCEPT !.frameTimes = appendWindow(m.frameTimes, frameMs.ms, 60)])
    ELSE m

(* The samples a run reports.  Each of the three streams holds one level for
   its first ChangeAfter samples and another one from then on; every
   InvalidEvery-th sample of a stream is not a valid measurement (0, or not
   finite). *)
ChangeAfter == 11
InvalidEvery == 7
MaxFastReports == 35
MaxDepthReports == 12
MaxFrameReports == 72

Streams ==
    {[fast |-> <<1000, 400>>, depth |-> <<500, 4000>>, frame |-> <<10, 30>>],
     [fast |-> <<200, 600>>, depth |-> <<500, 3000>>, frame |-> <<10, 22>>],
     [fast |-> <<600, 1000>>, depth |-> <<4000, 500>>, frame |-> <<30, 10>>]}

(* The k-th sample of a stream of two levels. *)
sampleOf(levels, k) ==
    IF k % InvalidEvery = 0
    THEN [finite |-> (k \div InvalidEvery) % 2 = 1, ms |-> 0]
    ELSE [finite |-> TRUE, ms |-> IF k <= ChangeAfter THEN levels[1] ELSE levels[2]]

InitManager ==
    /\ InitServer
    /\ InitPage
    /\ calls = <<>>
    /\ InitEngine
    /\ InitPure
    /\ InitRoutes
    /\ InitSmoother
    /\ InitOverlayRefs
    /\ manager = AdaptiveQualityManager
    /\ reported \in {<<[streams |-> streams, fast |-> 0, depth |-> 0, frame |-> 0]>> :
                        streams \in Streams}

Reported(nextManager, nextReported) ==
    /\ manager' = nextManager
    /\ reported' = <<nextReported>>
    /\ UNCHANGED <<now, serverVars, pageVars, engine, bindings, projected, lastCall,
                   layoutCall, layoutResult, sanitizeCall, sanitizeResult, timeoutCall,
                   timeoutResult, requests, modelCalls, authDb, verifies, attempts, smoother, smoothed, overlayRefs>>

(* qualityManager.reportFastRtt(rttMs) *)
ReportFastRtt ==
    /\ reported # <<>>
    /\ reported[1].fast < MaxFastReports
    /\ Reported(reportFastRtt(manager, sampleOf(reported[1].streams.fast, reported[1].fast + 1)),
                [reported[1] EXCEPT !.fast = @ + 1])

(* qualityManager.reportDepthRtt(rttMs) *)
ReportDepthRtt ==
    /\ reported # <<>>
    /\ reported[1].depth < MaxDepthReports
    /\ Reported(reportDepthRtt(manager,
                               sampleOf(reported[1].streams.depth, reported[1].depth + 1)),
                [reported[1] EXCEPT !.depth = @ + 1])

(* qualityManager.reportFrameTime(frameMs) *)
ReportFrameTime ==
    /\ reported # <<>>
    /\ reported[1].frame < MaxFrameReports
    /\ Reported(reportFrameTime(manager,
                                sampleOf(reported[1].streams.frame, reported[1].frame + 1)),
                [reported[1] EXCEPT !.frame = @ + 1])

NextManager ==
    \/ ReportFastRtt
    \/ ReportDepthRtt
    \/ ReportFrameTime

SpecManager == InitManager /\ [][NextManager]_vars

(* The most recent `size` valid samples among the first `count` samples of a
   stream. *)
RecentValid(levels, count, size) ==
    LET valid == SelectSeq([k \in 1..count |-> sampleOf(levels, k)], validSample)
        from == Max(1, Len(valid) - size + 1)
    IN  [i \in 1..(Len(valid) - from + 1) |-> valid[from + i - 1].ms]

(* The threshold ladder on three lists of samples. *)
Ladder(fast, depth, frame) ==
    LET over(values, threshold) ==
            values # <<>> /\ Sum(values) > threshold * Len(values)
    IN  IF over(fast, 900) \/ over(depth, 3500) \/ over(frame, 26) THEN "low"
        ELSE IF over(fast, 520) \/ over(depth, 2100) \/ over(frame, 19) THEN "balanced"
        ELSE "high"

(* C27: after any sequence of reportFastRtt, reportDepthRtt and
   reportFrameTime calls, the tier is the threshold ladder on the averages of
   the most recent 24 valid fast samples, 24 valid deep samples and 60 valid
   frame times reported so far (low above 900, 3500 or 26; else balanced above
   520, 2100 or 19; else high), whatever the tier was before. *)
C27_TierIsLadderOfWindows ==
    \A k \in DOMAIN reported :
        manager.tier =
            Ladder(RecentValid(reported[k].streams.fast, reported[k].fast, 24),
                   RecentValid(reported[k].streams.depth, reported[k].depth, 24),
                   RecentValid(reported[k].streams.frame, reported[k].frame, 60))

(* Thirty valid fast samples have been reported, the first ten of 1000 ms
   and the others of 400 ms: the window holds the latest 24, four of them of
   1000 ms, and the tier, "low" after the first ten and "balanced" since, is
   "high" again. *)
C27_Witness ==
    /\ reported # <<>>
    /\ reported[1].streams.fast = <<1000, 400>>
    /\ reported[1].fast >= 34
    /\ reported[1].depth = 0
    /\ reported[1].frame = 0
    /\ Len(manager.fastRtts) = 24
    /\ Sum(manager.fastRtts) = 4 * 1000 + 20 * 400
    /\ manager.tier = "high"

-----------------------------------------------------------------------------
(* The lite lane endpoint: POST of app/api/analyze/lite/route.ts and
   parseAnalyzePayload of app/api/analyze/shared.ts *)

MAX_IMAGE_BASE64_LENGTH == 4000000
MIN_IMAGE_BASE64_LENGTH == 128
MAX_VIDEO_BASE64_LENGTH == 8000000
MIN_VIDEO_BASE64_LENGTH == 256
MAX_FRAME_AGE_MS == 15000
MAX_VIDEO_DURATION_MS == 8000

(* A base64 string of a body, of which the endpoint reads the length only. *)
JsText(length) == [t |-> "string", length |-> length]

(* A body that is not JSON; words are the words of its text. *)
NotJson(words) == [t |-> "not JSON", words |-> words]

(* toFiniteNumber: <<>> is undefined; the number is in thousandths. *)
toFiniteNumber(value) == IF value.t # "number" \/ ~value.finite THEN <<>> ELSE <<value.milli>>

(* toPositiveInt: <<>> is undefined. *)
toPositiveInt(value) ==
    LET parsed == toFiniteNumber(value)
    IN  IF parsed = <<>> THEN <<>>
        ELSE IF round(parsed[1]) > 0 THEN <<round(parsed[1])>> ELSE <<>>

(* /^video\/webm/i.test(videoMimeType) *)
isWebm(videoMimeType) ==
    /\ Len(videoMimeType) >= Len(<<"v", "i", "d", "e", "o", "/", "w", "e", "b", "m">>)
    /\ toLowerCase(SubSeq(videoMimeType, 1, Len(<<"v", "i", "d", "e", "o", "/", "w", "e", "b", "m">>))) = <<"v", "i", "d", "e", "o", "/", "w", "e", "b", "m">>

fail(status) == [response |-> status]

(* parseAnalyzePayload once request.json() has resolved with body, at time
   nowMs: [response |-> status], or [payload |-> ...]. *)
parseAnalyzePayload(body, maxSide, nowMs) ==
    LET given == optionalChain(body, "image")
        image == IF given.t = "string" THEN given.length ELSE 0
        width == OrElse(toPositiveInt(optionalChain(body, "width")), 640)
        height == OrElse(toPositiveInt(optionalChain(body, "height")), 360)
        frameId == OrElse(toPositiveInt(optionalChain(body, "frameId")), 1)
        rawCapturedAt == OrElse(toFiniteNumber(optionalChain(body, "capturedAt")), nowMs * 1000)
        capturedAt == Min(rawCapturedAt, nowMs * 1000)
        clip == optionalChain(body, "videoClipBase64")
        videoClipBase64 == IF clip.t = "string" THEN clip.length ELSE 0
        mime == optionalChain(body, "videoMimeType")
        videoMimeType == IF mime.t = "string" THEN trim(mime.chars) ELSE <<>>
        videoDurationMs == toPositiveInt(optionalChain(body, "videoDurationMs"))
    IN  IF image = 0 \/ image < MIN_IMAGE_BASE64_LENGTH THEN fail(400)
        ELSE IF image > MAX_IMAGE_BASE64_LENGTH THEN fail(413)
        ELSE IF width > maxSide \/ height > maxSide THEN fail(400)
        ELSE IF nowMs * 1000 - capturedAt > MAX_FRAME_AGE_MS * 1000 THEN fail(409)
        ELSE IF videoClipBase64 # 0 /\ videoClipBase64 < MIN_VIDEO_BASE64_LENGTH THEN fail(400)
        ELSE IF videoClipBase64 # 0 /\ videoClipBase64 > MAX_VIDEO_BASE64_LENGTH THEN fail(413)
        ELSE IF videoClipBase64 # 0 /\ (videoMimeType = <<>> \/ ~isWebm(videoMimeType))
             THEN fail(400)
        ELSE IF videoClipBase64 # 0
                /\ (videoDurationMs = <<>> \/ videoDurationMs[1] > MAX_VIDEO_DURATION_MS)
             THEN fail(400)
        ELSE [payload |-> [frameId |-> frameId]]

(* The status of the catch block of POST for an error with this message. *)
statusOfError(message) ==
    IF "aborted" \in message THEN 499
    ELSE IF "busy" \in message THEN 429
    ELSE 500

(* The message of the SyntaxError of request.json(): the runtime decides
   whether it quotes the text of the body. *)
SyntaxErrorMessages(body) == {{"Unexpected", "token"}, {"Unexpected", "token"} \cup body.words}

(* The bodies of the requests. *)
WebmClip ==
    << <<"videoClipBase64", JsText(MIN_VIDEO_BASE64_LENGTH)>>,
       <<"videoMimeType", JsString(<<" ", "V", "i", "d", "e", "o", "/", "W", "e", "b", "M", ";", "c", "o", "d", "e", "c", "s", "=", "v", "p", "9">>)>>,
       <<"videoDurationMs", JsNumber(3000000)>> >>

Bodies ==
    {NotJson({}), NotJson({"aborted"}), JsNull, JsNumber(5000), JsArray(<<>>)}
    \cup
    {JsObject(image \o width \o capturedAt \o video) :
        image \in Field("image",
            <<JsNumber(5000), JsNull, JsText(0), JsText(MIN_IMAGE_BASE64_LENGTH - 1),
              JsText(MIN_IMAGE_BASE64_LENGTH), JsText(MAX_IMAGE_BASE64_LENGTH),
              JsText(MAX_IMAGE_BASE64_LENGTH + 1)>>),
        width \in Field("width", <<JsNumber(721000), JsNumber(400), JsString(<<"6", "4", "0">>)>>),
        capturedAt \in Field("capturedAt",
            <<JsNumber((StartTime - MAX_FRAME_AGE_MS - 1) * 1000),
              JsNumber((StartTime + MAX_FRAME_AGE_MS) * 1000)>>),
        video \in {<<>>, WebmClip,
                   << <<"videoClipBase64", JsText(MIN_VIDEO_BASE64_LENGTH - 1)>> >>,
                   << <<"videoClipBase64", JsText(MAX_VIDEO_BASE64_LENGTH + 1)>> >>,
                   << <<"videoClipBase64", JsText(MIN_VIDEO_BASE64_LENGTH)>>,
                      <<"videoMimeType", JsString(<<"v", "i", "d", "e", "o", "/", "m", "p", "4">>)>> >>,
                   << <<"videoClipBase64", JsText(MIN_VIDEO_BASE64_LENGTH)>>,
                      <<"videoMimeType", JsString(<<"v", "i", "d", "e", "o", "/", "w", "e", "b", "m">>)>>,
                      <<"videoDurationMs", JsNumber((MAX_VIDEO_DURATION_MS + 1) * 1000)>> >>}}

(* One request has reached the endpoint; its body has not been read. *)
InitEndpoint ==
    /\ InitServer
    /\ InitPage
    /\ calls = <<>>
    /\ InitEngine
    /\ InitPure
    /\ InitQuality
    /\ InitSmoother
    /\ InitOverlayRefs
    /\ requests \in {<<[body |-> body, at |-> "request.json", aborted |-> FALSE,
                        status |-> 0]>> : body \in Bodies}
    /\ modelCalls = {}
    /\ authDb = [activeInvites |-> <<>>]
    /\ verifies = <<>>
    /\ attempts = <<>>

EndpointStep(i, nextRequest, nextModelCalls) ==
    /\ requests' = [requests EXCEPT ![i] = nextRequest]
    /\ modelCalls' = nextModelCalls
    /\ UNCHANGED <<now, serverVars, pageVars, engine, bindings, projected, lastCall,
                   layoutCall, layoutResult, sanitizeCall, sanitizeResult, timeoutCall,
                   timeoutResult, manager, reported, authDb, verifies, attempts, smoother, smoothed, overlayRefs>>

Responds(request, status) == [request EXCEPT !.at = "done", !.status = status]

(* request.json() rejects: the body is not JSON, and the catch block of POST
   answers. *)
PostRejectsBody ==
    \E i \in DOMAIN requests :
        /\ requests[i].at = "request.json"
        /\ requests[i].body.t = "not JSON"
        /\ \E message \in SyntaxErrorMessages(requests[i].body) :
            EndpointStep(i, Responds(requests[i], statusOfError(message)), modelCalls)

(* request.json() resolves and parseAnalyzePayload returns a response. *)
PostRejectsPayload ==
    \E i \in DOMAIN requests :
        /\ requests[i].at = "request.json"
        /\ requests[i].body.t # "not JSON"
        /\ LET parsed == parseAnalyzePayload(requests[i].body, 720, now)
           IN  /\ "response" \in DOMAIN parsed
               /\ EndpointStep(i, Responds(requests[i], parsed.response), modelCalls)

(* request.json() resolves, parseAnalyzePayload returns a payload:
   analyzeLitePrimaryEmotion is called, and withRequestAbort throws when the
   client has gone. *)
PostCallsModel ==
    \E i \in DOMAIN requests :
        /\ requests[i].at = "request.json"
        /\ requests[i].body.t # "not JSON"
        /\ "payload" \in DOMAIN parseAnalyzePayload(requests[i].body, 720, now)
        /\ EndpointStep(i,
                        IF requests[i].aborted
                        THEN Responds(requests[i],
                                      statusOfError({"Request", "aborted", "before", "processing"}))
                        ELSE [requests[i] EXCEPT !.at = "withRequestAbort"],
                        modelCalls \cup {i})

(* The client aborts the request: request.signal fires. *)
ClientAborts ==
    \E i \in DOMAIN requests :
        /\ requests[i].at # "done"
        /\ ~requests[i].aborted
        /\ EndpointStep(i,
                        IF requests[i].at = "withRequestAbort"
                        THEN Responds([requests[i] EXCEPT !.aborted = TRUE],
                                      statusOfError({"Request", "aborted", "by", "client"}))
                        ELSE [requests[i] EXCEPT !.aborted = TRUE],
                        modelCalls)

(* analyzeLitePrimaryEmotion resolves (it never rejects) and POST answers. *)
PostAnswers ==
    \E i \in DOMAIN requests :
        /\ requests[i].at = "withRequestAbort"
        /\ EndpointStep(i, Responds(requests[i], 200), modelCalls)

NextEndpoint ==
    \/ PostRejectsBody
    \/ PostRejectsPayload
    \/ PostCallsModel
    \/ ClientAborts
    \/ PostAnswers

SpecEndpoint == InitEndpoint /\ [][NextEndpoint]_vars

(* A body is malformed: it is not JSON, or its image field is missing, not
   a string, or shorter than the minimum. *)
Malformed(body) ==
    \/ body.t = "not JSON"
    \/ body.t # "object"
    \/ "image" \notin DOMAIN body.fields
    \/ body.fields["image"].t # "string"
    \/ body.fields["image"].length < MIN_IMAGE_BASE64_LENGTH

(* C28: a request to a lane endpoint with a malformed body is answered with
   status 400, and no model call is made for it. *)
C28_MalformedBodyRejected ==
    \A i \in DOMAIN requests :
        Malformed(requests[i].body) =>
            /\ i \notin modelCalls
            /\ requests[i].at = "done" => requests[i].status = 400

-----------------------------------------------------------------------------
(* The invite routes: POST of the verify route and POST of the generate
   route (app/login/page.tsx) over db of lib/auth.ts.  Redis is taken to
   answer every command, so the catch blocks of readDB and writeDB are not
   entered. *)

TWENTY_MINUTES_MS == 1200000
MAX_ATTEMPTS_PER_WINDOW == 10
RATE_WINDOW_MS == 60000
MAX_ACTIVE_INVITES == 10

toUpperCase(s) ==
    [i \in 1..Len(s) |->
        IF \E k \in DOMAIN LowerCase : LowerCase[k] = s[i]
        THEN UpperCase[CHOOSE k \in DOMAIN LowerCase : LowerCase[k] = s[i]]
        ELSE s[i]]

(* data.activeInvites.filter(invite => now - invite.createdAt < TWENTY_MINUTES_MS) *)
unexpired(activeInvites, nowMs) ==
    SelectSeq(activeInvites, LAMBDA invite : nowMs - invite.createdAt < TWENTY_MINUTES_MS)

(* data.activeInvites.findIndex(invite => invite.code === normalizedCode) *)
findIndex(activeInvites, normalizedCode) ==
    LET hits == {k \in DOMAIN activeInvites : activeInvites[k].code = normalizedCode}
    IN  IF hits = {} THEN NoIndex ELSE CHOOSE k \in hits : \A h \in hits : k <= h

(* activeInvites.splice(index, 1) *)
splice(activeInvites, index) ==
    SubSeq(activeInvites, 1, index - 1) \o SubSeq(activeInvites, index + 1, Len(activeInvites))

(* The callback the verify route hands to db.update: the invites it leaves
   and whether it found the code. *)
consumeInvite(activeInvites, normalizedCode, nowMs) ==
    LET kept == unexpired(activeInvites, nowMs)
        inviteIndex == findIndex(kept, normalizedCode)
    IN  IF inviteIndex # NoIndex
        THEN [found |-> TRUE, activeInvites |-> splice(kept, inviteIndex)]
        ELSE [found |-> FALSE, activeInvites |-> kept]

(* The callback the generate route hands to db.update. *)
pushInvite(activeInvites, newInvite, nowMs) ==
    LET kept == unexpired(activeInvites, nowMs)
        capped == IF Len(kept) >= MAX_ACTIVE_INVITES
                  THEN SubSeq(kept, Len(kept) - MAX_ACTIVE_INVITES + 2, Len(kept))
                  ELSE kept
    IN  Append(capped, newInvite)

(* The codes randomInt can draw, and the bodies of the verify requests. *)
Codes == {<<"V", "0", "1", "D", "-", "M", "4", "T", "R", "1", "X", "-", "1", "0", "0", "0">>, <<"3", "N", "R", "0", "P", "Y", "-", "P", "H", "4", "N", "T", "0", "M", "-", "2", "0", "0", "0">>}

VerifyBodies ==
    {NotJson({}), JsNull, JsObject(<<>>),
     JsObject(<< <<"code", JsNumber(1000000)>> >>),
     JsObject(<< <<"code", JsString(<<>>)>> >>),
     JsObject(<< <<"code", JsString(<<"V", "0", "1", "D", "-", "M", "4", "T", "R", "1", "X", "-", "1", "0", "0", "0">>)>> >>),
     JsObject(<< <<"code", JsString(<<" ", "v", "0", "1", "d", "-", "m", "4", "t", "r", "1", "x", "-", "1", "0", "0", "0", " ">>)>> >>),
     JsObject(<< <<"code", JsString(<<"3", "N", "R", "0", "P", "Y", "-", "P", "H", "4", "N", "T", "0", "M", "-", "2", "0", "0", "0">>)>> >>)}

MaxInviteRequests == 3
MaxClockSteps == 2

InviteRequest(route, body, code, at, status) ==
    [route |-> route, body |-> body, code |-> code, at |-> at, status |-> status,
     now |-> 0, found |-> FALSE, data |-> <<>>]

(* No request is in flight: nothing is stored, or the owner has generated
   one invite; the address has made no attempt, or one attempt less than the
   limiter allows. *)
InitInvite ==
    /\ InitServer
    /\ InitPage
    /\ calls = <<>>
    /\ InitEngine
    /\ InitPure
    /\ InitQuality
    /\ InitSmoother
    /\ InitOverlayRefs
    /\ requests = <<>>
    /\ modelCalls = {}
    /\ \/ /\ authDb = [activeInvites |-> <<>>]
          /\ verifies = <<>>
       \/ \E code \in Codes :
            /\ authDb = [activeInvites |-> <<[code |-> code, createdAt |-> StartTime]>>]
            /\ verifies = <<InviteRequest("generate", JsNull, code, "done", 200)>>
    /\ attempts \in {<<>>, [k \in 1..(MAX_ATTEMPTS_PER_WINDOW - 1) |-> StartTime]}

InviteFrame ==
    UNCHANGED <<serverVars, pageVars, engine, bindings, projected, lastCall, layoutCall,
                layoutResult, sanitizeCall, sanitizeResult, timeoutCall, timeoutResult,
                manager, reported, requests, modelCalls, smoother, smoothed, overlayRefs>>

(* isRateLimited *)
isRateLimited(ipAttempts, nowMs) ==
    LET recent == SelectSeq(ipAttempts, LAMBDA t : t > nowMs - RATE_WINDOW_MS)
    IN  IF Len(recent) >= MAX_ATTEMPTS_PER_WINDOW
        THEN [limited |-> TRUE, attempts |-> recent]
        ELSE [limited |-> FALSE, attempts |-> Append(recent, nowMs)]

(* A verify request arrives: the limiter answers it, or req.json() is
   awaited. *)
PostVerify ==
    \E body \in VerifyBodies :
        /\ Len(verifies) < MaxInviteRequests
        /\ LET limiter == isRateLimited(attempts, now)
           IN  /\ attempts' = limiter.attempts
               /\ verifies' = Append(verifies,
                                     IF limiter.limited
                                     THEN InviteRequest("verify", body, <<>>, "done", 429)
                                     ELSE InviteRequest("verify", body, <<>>, "req.json", 0))
        /\ UNCHANGED <<now, authDb>>
        /\ InviteFrame

(* req.json() settles: the catch block or the check of code answers, or
   db.update is called and awaits readDB. *)
VerifyReadsBody ==
    \E i \in DOMAIN verifies :
        /\ verifies[i].route = "verify"
        /\ verifies[i].at = "req.json"
        /\ LET body == verifies[i].body
               code == IF body.t = "not JSON" THEN TypeError ELSE property(body, "code")
           IN  verifies' = [verifies EXCEPT ![i] =
                    IF code.t = "TypeError"
                    THEN [@ EXCEPT !.at = "done", !.status = 500]
                    ELSE IF ~Boolean(code) \/ code.t # "string"
                    THEN [@ EXCEPT !.at = "done", !.status = 400]
                    ELSE [@ EXCEPT !.at = "readDB", !.now = now,
                                   !.code = trim(toUpperCase(code.chars))]]
        /\ UNCHANGED <<now, authDb, attempts>>
        /\ InviteFrame

(* A generate request arrives: a caller who is not the owner is answered
   403; for the owner a code is drawn and db.update awaits readDB. *)
PostGenerate ==
    \E role \in {"owner", "guest"}, newCode \in Codes :
        /\ Len(verifies) < MaxInviteRequests
        /\ verifies' = Append(verifies,
                              IF role # "owner"
                              THEN InviteRequest("generate", JsNull, <<>>, "done", 403)
                              ELSE [InviteRequest("generate", JsNull, newCode, "readDB", 0)
                                        EXCEPT !.now = now])
        /\ UNCHANGED <<now, authDb, attempts>>
        /\ InviteFrame

(* db.update: readDB resolves with what is stored, the callback runs on it,
   and writeDB is awaited. *)
UpdateReads ==
    \E i \in DOMAIN verifies :
        /\ verifies[i].at = "readDB"
        /\ verifies' = [verifies EXCEPT ![i] =
                IF verifies[i].route = "verify"
                THEN LET consumed == consumeInvite(authDb.activeInvites, verifies[i].code,
                                                   verifies[i].now)
                     IN  [@ EXCEPT !.at = "writeDB", !.found = consumed.found,
                                   !.data = consumed.activeInvites]
                ELSE [@ EXCEPT !.at = "writeDB",
                               !.data = pushInvite(authDb.activeInvites,
                                                   [code |-> verifies[i].code,
                                                    createdAt |-> verifies[i].now],
                                                   now)]]
        /\ UNCHANGED <<now, authDb, attempts>>
        /\ InviteFrame

(* db.update: writeDB stores what the callback left, and the route answers:
   a verify that found the code is issued the guest session. *)
UpdateWrites ==
    \E i \in DOMAIN verifies :
        /\ verifies[i].at = "writeDB"
        /\ authDb' = [activeInvites |-> verifies[i].data]
        /\ verifies' = [verifies EXCEPT ![i] =
                [@ EXCEPT !.at = "done",
                          !.status = IF verifies[i].route = "verify" /\ ~verifies[i].found
                                     THEN 401 ELSE 200]]
        /\ UNCHANGED <<now, attempts>>
        /\ InviteFrame

(* Time passes. *)
InviteClock ==
    /\ now < StartTime + MaxClockSteps * (TWENTY_MINUTES_MS \div 2)
    /\ now' = now + (TWENTY_MINUTES_MS \div 2)
    /\ UNCHANGED <<authDb, verifies, attempts, smoother, smoothed, overlayRefs>>
    /\ InviteFrame

NextInvite ==
    \/ PostVerify
    \/ VerifyReadsBody
    \/ PostGenerate
    \/ UpdateReads
    \/ UpdateWrites
    \/ InviteClock

SpecInvite == InitInvite /\ [][NextInvite]_vars

(* The invites the owner has generated with this code, and the verify
   requests this code has given a guest session. *)
Issued(code) ==
    {i \in DOMAIN verifies :
        /\ verifies[i].route = "generate"
        /\ verifies[i].code = code
        /\ verifies[i].at \in {"writeDB", "done"}
        /\ verifies[i].status # 403}

Admitted(code) ==
    {i \in DOMAIN verifies :
        /\ verifies[i].route = "verify"
        /\ verifies[i].code = code
        /\ verifies[i].at = "done"
        /\ verifies[i].status = 200}

(* C29: an invite is single-use, also when several verify requests for its
   code are processed concurrently: at most one of them finds and consumes
   the invite and is issued a guest session, every other one is answered
   401. *)
C29_InviteSingleUse ==
    /\ \A code \in Codes : Cardinality(Admitted(code)) <= Cardinality(Issued(code))
    /\ \A i \in DOMAIN verifies :
          (verifies[i].route = "verify" /\ verifies[i].code # <<>> /\ verifies[i].at = "done")
              => verifies[i].status \in {200, 401}

-----------------------------------------------------------------------------
(* The stale sweep of updateAnchors *)

(* The step is a call of updateAnchors. *)
IsUpdateAnchors == now' = now /\ lastCall'.op = "update"

IncomingIds(call) == {call.anchors[k].id : k \in DOMAIN call.anchors}

TooOld(b) == now - b.lastSeenAt > engine.maxStaleMs

(* C30: updateAnchors removes an existing binding if and only if its id is
   absent from the incoming anchors and its age exceeds the soft threshold;
   a binding that is absent but not too old is kept with its anchor, landmark
   index, offset and lastSeenAt unchanged. *)
C30_SweepRemovesAbsentAndTooOld ==
    [][IsUpdateAnchors =>
          \A id \in BindingIds(bindings) :
              LET b == BindingOf(bindings, id)
                  absent == id \notin IncomingIds(lastCall')
              IN  /\ id \notin BindingIds(bindings') <=> (absent /\ TooOld(b))
                  /\ (absent /\ ~TooOld(b)) => BindingOf(bindings', id) = b]_vars

(* updateAnchors has just kept a binding that is absent from its anchors and
   was last seen before the call. *)
C30_Witness ==
    /\ lastCall.op = "update"
    /\ lastCall.at = now
    /\ \E k \in DOMAIN bindings :
          /\ bindings[k].id \notin IncomingIds(lastCall)
          /\ bindings[k].lastSeenAt < now
          /\ ~TooOld(bindings[k])

-----------------------------------------------------------------------------
(* project and the binding table *)

(* The step is a call of project. *)
IsProject == now' = now /\ lastCall'.op = "project"

(* C31: project never creates a binding and never changes the anchor, the
   landmark index, the offset or lastSeenAt of a binding it keeps: the only
   change it makes to the binding table is deleting expired bindings. *)
C31_ProjectOnlyDeletesExpired ==
    [][IsProject =>
          /\ BindingIds(bindings') \subseteq BindingIds(bindings)
          /\ \A id \in BindingIds(bindings') :
                LET before == BindingOf(bindings, id)
                    after == BindingOf(bindings', id)
                IN  /\ after.anchor = before.anchor
                    /\ after.landmarkIndex = before.landmarkIndex
                    /\ after.offset = before.offset
                    /\ after.lastSeenAt = before.lastSeenAt
          /\ \A id \in BindingIds(bindings) \ BindingIds(bindings') :
                now - BindingOf(bindings, id).lastSeenAt
                    > maxAgeMs(engine, lastCall'.preserveStale)]_vars

(* project has just returned, for a binding made earlier that it keeps on a
   landmark, a point other than the reported one. *)
C31_Witness ==
    /\ lastCall.op = "project"
    /\ lastCall.at = now
    /\ lastCall.frame # NoFrame
    /\ \E k \in DOMAIN bindings :
          /\ bindings[k].lastSeenAt < now
          /\ bindings[k].landmarkIndex # NoIndex
          /\ bindings[k].id \in ReturnedIds
          /\ Returned(bindings[k].id).projectedPoint # bindings[k].anchor.point

-----------------------------------------------------------------------------
(* The facial part of a flash finding that names none *)

(* The landmark list of a flash answer, read as the findings are read. *)
LandmarksOf(raw) ==
    LET items == listOf(optionalChain(raw, "landmarks"), 8)
    IN  [i \in DOMAIN items |->
            [facialPart |-> toFacialPart(optionalChain(items[i], "facialPart")),
             point |-> toPoint(optionalChain(items[i], "point"), <<0, 0>>)]]

(* The finding carries a point: an array of two numbers. *)
CarriesPoint(item) ==
    LET point == optionalChain(item, "point")
    IN  /\ point.t = "array"
        /\ Len(point.items) = 2
        /\ isNumber(point.items[1])
        /\ isNumber(point.items[2])

(* C32: in the sanitized flash result, a finding whose facial part is
   "unknown" or unrecognized but that carries a point gets, in the derived
   semantic anchors, the facial part of the landmark of the same response
   that is nearest to the point by squared planar distance. *)
C32_UnknownPartTakesNearestLandmark ==
    \A k \in DOMAIN sanitizeResult :
        (/\ sanitizeCall[1].lane = "flash"
         /\ sanitizeCall[1].raws[k].t = "object"
         /\ ~sanitizeResult[k].threw)
            => LET raw == sanitizeCall[1].raws[k]
                   items == listOf(property(raw, "emotions"), 6)
                   landmarks == LandmarksOf(raw)
               IN  \A i \in DOMAIN items :
                      (/\ landmarks # <<>>
                       /\ CarriesPoint(items[i])
                       /\ toFacialPart(optionalChain(items[i], "facialPart")) = unknown)
                          => sanitizeResult[k].value.semanticAnchors[i].facialPart
                                 = nearestLandmarkPart(
                                       toPoint(optionalChain(items[i], "point"), <<0, 0>>),
                                       landmarks)

-----------------------------------------------------------------------------
(* layoutLabels on labels whose priorities lie close together *)

(* Priorities in hundredths of the labels JoyId, FearId and JawId: chains
   whose neighbours are within the epsilon and whose ends are not, three
   priorities that are pairwise apart, and two near ones above a far one. *)
ChainPriorities == {<<90, 88, 86>>, <<90, 86, 88>>, <<90, 85, 80>>, <<90, 88, 50>>}

ChainInputs ==
    {[k \in 1..Len(LabelIds) |->
         [id |-> LabelIds[ids[k]], anchorX |-> anchors[k][1], anchorY |-> anchors[k][2],
          width |-> SmallLabel[1], height |-> SmallLabel[2],
          priority |-> priorities[ids[k]], preferDistance |-> FALSE]] :
        ids \in {q \in [1..Len(LabelIds) -> 1..Len(LabelIds)] :
                    \A i, j \in 1..Len(LabelIds) : i # j => q[i] # q[j]},
        anchors \in [1..Len(LabelIds) -> LabelAnchors],
        priorities \in ChainPriorities}

ChainCalls ==
    {[inputs |-> inputs, bounds |-> bounds, maxLabels |-> maxLabels] :
        inputs \in ChainInputs,
        bounds \in {b \in Viewports : b.padding = <<>> /\ b.faceCenterX = <<>>},
        maxLabels \in {Len(LabelIds) - 1, Len(LabelIds)}}

InitChain ==
    /\ InitServer
    /\ InitPage
    /\ calls = <<>>
    /\ engine = fusionRef
    /\ bindings = <<>>
    /\ projected = <<>>
    /\ lastCall = NoCall
    /\ layoutCall \in {<<call>> : call \in ChainCalls}
    /\ layoutResult = <<>>
    /\ InitEdge

SpecChain == InitChain /\ [][NextLayout]_vars

(* The place of the label with this id in what layoutLabels returned (0 when
   it was dropped). *)
PlaceOf(id) ==
    LET out == layoutResult[1]
    IN  IF \E k \in DOMAIN out : out[k].id = id
        THEN CHOOSE k \in DOMAIN out : out[k].id = id
        ELSE 0

(* C33: whenever the priority of label A exceeds that of label B by more than
   the epsilon, layoutLabels processes and returns A before B, so truncation
   to maxLabels never drops A while keeping B; also for chains of labels
   whose neighbouring priorities are within the epsilon of each other. *)
C33_ClearlyHigherPriorityFirst ==
    layoutResult # <<>> =>
        \A i, j \in DOMAIN layoutCall[1].inputs :
            LET a == layoutCall[1].inputs[i]
                b == layoutCall[1].inputs[j]
            IN  (a.priority - b.priority > 3 /\ PlaceOf(b.id) # 0)
                    => (PlaceOf(a.id) # 0 /\ PlaceOf(a.id) < PlaceOf(b.id))

-----------------------------------------------------------------------------
(* services/overlay/smoothing: PointSmoother.  Points are pairs of grid
   units; the blend factor alpha is held in thousandths. *)

(* Math.exp(-dt / tau) in ten-thousandths for dt < 3 * tau, by the series
   1 - x + x^2/2! - x^3/3! + ... of which SeriesTerms terms are taken (the
   terms after them are below one ten-thousandth). *)
SeriesTerms == 24

RECURSIVE expSeries(_, _, _, _)
expSeries(dt, tau, k, term) ==
    IF term = 0 \/ k > SeriesTerms THEN 0
    ELSE term - expSeries(dt, tau, k + 1, (term * dt) \div (tau * (k + 1)))

blendFactor_Unclamped(dt, tau) ==
    IF dt >= 3 * tau THEN 950 ELSE (10000 - expSeries(dt, tau, 0, 10000)) \div 10

(* clamp(1 - Math.exp(-dt / tau), 0.1, 0.95); from dt = 3 * tau on the
   exponential is below 0.05 and the clamp gives 0.95. *)
blendFactor(dt, tau) ==
    IF dt >= 3 * tau THEN 950
    ELSE clamp((10000 - expSeries(dt, tau, 0, 10000)) \div 10, 100, 950)

(* Math.round(interpolate(from, to, alpha)) *)
interpolate(from, to, alpha) == round(from * 1000 + (to - from) * alpha)

(* smooth(id, nextPoint, nowMs): the states it leaves and the point it
   returns. *)
smooth(sm, id, nextPoint, nowMs) ==
    IF id \notin DOMAIN sm.states
    THEN [states |-> [i \in DOMAIN sm.states \cup {id} |->
                         IF i = id THEN [point |-> nextPoint, lastUpdatedAt |-> nowMs]
                         ELSE sm.states[i]],
          point |-> nextPoint]
    ELSE LET existing == sm.states[id]
             dt == Max(1, nowMs - existing.lastUpdatedAt)
             dy == nextPoint[1] - existing.point[1]
             dx == nextPoint[2] - existing.point[2]
             tau == IF dy * dy + dx * dx > 26 * 26 THEN sm.attackMs ELSE sm.releaseMs
             alpha == blendFactor(dt, tau)
             smoothedPoint ==
                 <<clamp(interpolate(existing.point[1], nextPoint[1], alpha), 0, 1000),
                   clamp(interpolate(existing.point[2], nextPoint[2], alpha), 0, 1000)>>
         IN  [states |-> [sm.states EXCEPT ![id] = [point |-> smoothedPoint,
                                                    lastUpdatedAt |-> nowMs]],
              point |-> smoothedPoint]

(* prune(nowMs): the states it leaves. *)
prune(sm, nowMs) ==
    LET keptIds == {id \in DOMAIN sm.states :
                      ~(nowMs - sm.states[id].lastUpdatedAt > sm.maxStateAgeMs)}
    IN  [id \in keptIds |-> sm.states[id]]

(* Bounds of the inputs of the smoother: the pauses between two draws, the
   number of smooth calls, the distances of the targets from the centre. *)
FramePause == 33
SlowPause == 100
LongPause == 5000
MaxSmoothCalls == 3

Centre == 500
Distances == {-30, -11, -10, -1, 0, 1, 5, 10, 11}

SmoothPoints ==
    {<<Centre + d, Centre>> : d \in Distances}
        \cup {<<Centre + 1, Centre + 1>>, <<0, 0>>, <<1000, 1000>>}

SmoothIds == {"emo-joy-1"}

SmootherOptions ==
    {[attackMs |-> <<>>, releaseMs |-> <<>>, maxStateAgeMs |-> <<>>],
     [attackMs |-> <<48>>, releaseMs |-> <<154>>, maxStateAgeMs |-> <<4600>>]}

InitSmooth ==
    /\ InitServer
    /\ InitPage
    /\ calls = <<>>
    /\ InitEngine
    /\ InitPure
    /\ InitQuality
    /\ requests = <<>>
    /\ modelCalls = {}
    /\ authDb = [activeInvites |-> <<>>]
    /\ verifies = <<>>
    /\ attempts = <<>>
    /\ smoother \in {PointSmoother(options) : options \in SmootherOptions}
    /\ smoothed = <<>>
    /\ InitOverlayRefs

SmoothFrame ==
    UNCHANGED <<serverVars, pageVars, engine, bindings, projected, lastCall, layoutCall,
                layoutResult, sanitizeCall, sanitizeResult, timeoutCall, timeoutResult,
                manager, reported, requests, modelCalls, authDb, verifies, attempts, overlayRefs>>

(* The number of smooth calls made so far. *)
SmoothCalls == IF smoothed = <<>> THEN 0 ELSE smoothed[1].calls

(* smoother.smooth(id, nextPoint, now) *)
Smooth ==
    \E id \in SmoothIds, nextPoint \in SmoothPoints :
        /\ SmoothCalls < MaxSmoothCalls
        /\ LET result == smooth(smoother, id, nextPoint, now)
               previous == IF id \in DOMAIN smoother.states
                           THEN <<smoother.states[id]>> ELSE <<>>
               pause == IF previous = <<>> THEN 0 ELSE now - previous[1].lastUpdatedAt
           IN  /\ smoother' = [smoother EXCEPT !.states = result.states]
               /\ smoothed' =
                    <<[id |-> id, nextPoint |-> nextPoint, at |-> now, pause |-> pause,
                       previous |-> previous, returned |-> result.point,
                       calls |-> SmoothCalls + 1,
                       repeated |-> /\ smoothed # <<>>
                                    /\ previous # <<>>
                                    /\ smoothed[1].previous # <<>>
                                    /\ smoothed[1].id = id
                                    /\ smoothed[1].nextPoint = nextPoint
                                    /\ smoothed[1].pause = pause]>>
        /\ UNCHANGED now
        /\ SmoothFrame

(* smoother.prune(now) *)
SmoothPrune ==
    /\ DOMAIN smoother.states # {}
    /\ smoother' = [smoother EXCEPT !.states = prune(smoother, now)]
    /\ UNCHANGED <<now, smoothed>>
    /\ SmoothFrame

(* Time passes between two draws. *)
SmoothTick ==
    /\ smoothed # <<>>
    /\ smoothed[1].at = now
    /\ SmoothCalls < MaxSmoothCalls
    /\ \E pause \in {FramePause, SlowPause, LongPause} : now' = now + pause
    /\ UNCHANGED <<smoother, smoothed>>
    /\ SmoothFrame

NextSmooth ==
    \/ Smooth
    \/ SmoothPrune
    \/ SmoothTick

SpecSmooth == InitSmooth /\ [][NextSmooth]_vars

(* The last smooth call found an entry for its id, and its target differs
   from the stored point. *)
TowardsNewTarget ==
    /\ smoothed # <<>>
    /\ smoothed[1].previous # <<>>
    /\ smoothed[1].nextPoint # smoothed[1].previous[1].point

(* Some coordinate of the target is more than `far' grid units from the
   stored one. *)
TargetFartherThan(far) ==
    \E c \in 1..2 :
        Abs(smoothed[1].nextPoint[c] - smoothed[1].previous[1].point[c]) > far

(* C34 as stated: when a prior entry exists for the id and the target differs
   from the stored point, smooth returns a point that is neither the stored
   point nor the target, for every blend factor in [0.1, 0.95] and every pair
   of integer coordinates. *)
C34_NeitherIgnoresNorSnaps ==
    TowardsNewTarget =>
        /\ smoothed[1].returned # smoothed[1].previous[1].point
        /\ smoothed[1].returned # smoothed[1].nextPoint

(* C34, amended: when a prior entry exists for the id and some coordinate of
   the target is more than 10 grid units from the stored one, smooth returns
   a point that is neither the stored point nor the target. *)
C34_NeitherIgnoresNorSnapsWhenFar ==
    (TowardsNewTarget /\ TargetFartherThan(10)) =>
        /\ smoothed[1].returned # smoothed[1].previous[1].point
        /\ smoothed[1].returned # smoothed[1].nextPoint

(* smooth has blended towards a target 11 units away with the largest blend
   factor, after a long pause. *)
C34_Witness ==
    /\ TowardsNewTarget
    /\ smoothed[1].pause = LongPause
    /\ smoothed[1].previous[1].point = <<Centre, Centre>>
    /\ smoothed[1].nextPoint = <<Centre + 11, Centre>>
    /\ smoothed[1].returned = <<Centre + 10, Centre>>

(* C40: convergence of the smoother: calls for one id with one fixed target
   at increasing timestamps eventually return the target.  A call that repeats
   the call before it (same id, same target, same pause since the stored
   entry) later than it and returns the stored point unchanged leaves the smoother as it
   found it, so every later call of the series returns that point again; the
   series reaches the target exactly when this never happens away from the
   target. *)
C40_RestsOnlyAtTarget ==
    ~(/\ smoothed # <<>>
      /\ smoothed[1].repeated
      /\ smoothed[1].pause > 0
      /\ smoothed[1].returned = smoothed[1].previous[1].point
      /\ smoothed[1].returned # smoothed[1].nextPoint)

-----------------------------------------------------------------------------
(* The generateContent requests the backend has received for a model and not
   yet answered.  withTimeout only stops waiting: the request of an attempt it
   ended stays with the backend until the backend answers. *)
AtBackend(model) ==
    {request \in UNION {{<<c, i>> : i \in 1..Len(calls[c].sent)} : c \in Calls} :
        /\ calls[request[1]].sent[request[2]].model = model
        /\ calls[request[1]].sent[request[2]].respAt > now}

(* C35: for each backend model at most one generate request is outstanding at
   the backend at any time, the requests of attempts ended by the per-attempt
   timeout included. *)
C35_OneOutstandingPerModel ==
    \A model \in Models : Cardinality(AtBackend(model)) <= 1

(* The call waits in acquireGate. *)
Waits(c) == \E model \in Models : WaitsFor(c, model)

(* C36: one generateWithLaneFallback call holds at most one gate at any time:
   it has released the gate of candidate i before it asks for that of
   candidate i+1, so a call that waits holds nothing, and the gate it finds in
   flight is held by another call, which is not waiting - no calls wait on each
   other's gates. *)
C36_NoHoldAndWait ==
    \A c \in Calls :
        /\ calls[c].nGrants - calls[c].nReleases \in {0, 1}
        /\ Waits(c) => calls[c].nGrants = calls[c].nReleases
        /\ \A model \in DOMAIN gates :
              (WaitsFor(c, model) /\ gates[model].inFlight) =>
                  \E d \in Calls \ {c} : Holds(d, model) /\ ~Waits(d)

(* A call that has released the gates of two candidates waits for the gate of
   its third, which a call of another lane holds. *)
C36_Witness ==
    \E c, d \in Calls :
        /\ calls[c].nReleases = 2
        /\ WaitsFor(c, "gemini-3-flash-preview")
        /\ Holds(d, "gemini-3-flash-preview")
        /\ calls[d].lane # calls[c].lane

-----------------------------------------------------------------------------
(* The step is a project call with the frame and the timestamp of the
   updateAnchors call made just before it, the frame being a tracking frame. *)
ProjectsAfterUpdate ==
    /\ IsProject
    /\ lastCall.op = "update"
    /\ lastCall.frame # NoFrame
    /\ lastCall.at = now
    /\ lastCall'.frame = lastCall.frame

(* C37: after updateAnchors(anchors, F, t) with a tracking frame F,
   project(F, t) returns every anchor whose facial part is not tracked in F
   with a projected point equal to its reported point - whether its binding
   was new, re-bound to the nearest landmark or kept on its previous one. *)
C37_UpdateProjectRoundTrip ==
    [][ProjectsAfterUpdate =>
          \A k \in DOMAIN lastCall.anchors :
              ~partTracked(lastCall.anchors[k], lastCall.frame) =>
                  \E j \in DOMAIN projected' :
                      /\ projected'[j].id = lastCall.anchors[k].id
                      /\ projected'[j].projectedPoint = lastCall.anchors[k].point]_vars

(* project has returned, at the reported point [700,500], an anchor bound at
   this timestamp to the landmark at [650,480] with the offset [50,20]. *)
C37_Witness ==
    /\ lastCall.op = "project"
    /\ lastCall.frame # NoFrame
    /\ lastCall.at = now
    /\ \E k \in DOMAIN bindings :
        /\ bindings[k].lastSeenAt = now
        /\ bindings[k].landmarkIndex # NoIndex
        /\ bindings[k].offset = <<50, 20>>
        /\ lastCall.frame.points[bindings[k].landmarkIndex] = <<650, 480>>
        /\ bindings[k].id \in ReturnedIds
        /\ Returned(bindings[k].id).projectedPoint = <<700, 500>>

-----------------------------------------------------------------------------
(* The overlay pipeline of the page: runFlashLoop applies the answers of the
   mid lane and refreshes the fusion engine, render draws the overlay.
   `now' is Date.now(); performance.now() and the timestamp requestAnimationFrame
   hands to render count from the time origin of the page. *)

MAX_VISIBLE_EMOTION_TAGS == 8

(* Date.now() at the time origin of the page. *)
TimeOrigin == 60000

performanceNow == now - TimeOrigin

(* Bounds: how long the clock runs, and the mid-lane requests of a run. *)
OverlayHorizon == 36000
MaxFlashRequests == 2

EmotionAnchor(id, label, point, confidence) ==
    [id |-> id, kind |-> "emotion", label |-> label, facialPart |-> "unknown",
     point |-> point, confidence |-> confidence]

(* Sanitized mid-lane results: one finding each, or the default result. *)
JoyResult ==
    [emotions |-> <<[emotion |-> "joy", confidence |-> HighConfidence]>>,
     semanticAnchors |->
        <<EmotionAnchor("emo-joy-1", "joy", ReportedPoint, HighConfidence),
          [id |-> "lm-0-jaw", kind |-> "landmark", label |-> "jaw", facialPart |-> "unknown",
           point |-> EdgePoint, confidence |-> LowConfidence]>>]

FearResult ==
    [emotions |-> <<[emotion |-> "fear", confidence |-> LowConfidence]>>,
     semanticAnchors |-> <<EmotionAnchor("emo-fear-1", "fear", EdgePoint, LowConfidence)>>]

DefaultFlashResult == [emotions |-> <<>>, semanticAnchors |-> <<>>]

FlashResults == {JoyResult, FearResult, DefaultFlashResult}

OverlayFrames == {NoFrame, TrackedFrame(<<705, 498>>, NoParts)}

(* buildFlashAnchors(flash), flash being <<>> for null *)
buildFlashAnchors(flash) ==
    IF flash = <<>> THEN <<>>
    ELSE slice(SelectSeq(flash[1].semanticAnchors, LAMBDA anchor : anchor.kind = "emotion"),
               MAX_VISIBLE_EMOTION_TAGS)

(* hasUsableFlashEmotionPayload(result); confidence in hundredths *)
hasUsableFlashEmotionPayload(result) ==
    \E k \in DOMAIN result.emotions :
        /\ result.emotions[k].emotion # ""
        /\ result.emotions[k].confidence >= 8

(* The result runFlashLoop stores for an answer: the previous emotions,
   landmarks and anchors are kept when the answer has no usable emotion. *)
effectiveResult(previousFlash, nextResult) ==
    IF previousFlash # <<>> /\ ~hasUsableFlashEmotionPayload(nextResult)
    THEN previousFlash[1]
    ELSE nextResult

(* The ids of the anchors drawOverlay draws: the projected ones or, when
   project returns none, those of the stored result; emotion findings of
   confidence 0.2 and more, the first MAX_VISIBLE_EMOTION_TAGS of them. *)
visibleAnchors(projectedAnchors, flash) ==
    LET anchors == IF projectedAnchors # <<>> THEN projectedAnchors
                   ELSE buildFlashAnchors(flash)
        shown == SelectSeq(anchors, LAMBDA anchor : anchor.confidence >= 20)
        ids == [k \in DOMAIN shown |-> shown[k].id]
    IN  slice(ids, MAX_VISIBLE_EMOTION_TAGS)

InitOverlayPage ==
    /\ InitServer
    /\ InitPage
    /\ calls = <<>>
    /\ engine = fusionRef
    /\ bindings = <<>>
    /\ projected = <<>>
    /\ lastCall = NoCall
    /\ layoutCall = <<>>
    /\ layoutResult = <<>>
    /\ InitEdge

OverlayFrame ==
    UNCHANGED <<serverVars, cameraReady, runningRef, timers, abortRef, geminiReadyAtRef,
                proFirstCaptureAtRef, proFirstRequestStartedRef, loops, playings,
                laneResultRef, fusionFrameId, dropped, engine, layoutCall, layoutResult,
                sanitizeCall, sanitizeResult, timeoutCall, timeoutResult, manager, reported,
                requests, modelCalls, authDb, verifies, attempts, smoother, smoothed>>

(* runFlashLoop up to its fetch. *)
FlashRequest ==
    /\ ~pendingRef["flash"]
    /\ requestFrameRef["flash"] < MaxFlashRequests
    /\ pendingRef' = [pendingRef EXCEPT !["flash"] = TRUE]
    /\ requestFrameRef' = [requestFrameRef EXCEPT !["flash"] = requestFrameRef["flash"] + 1]
    /\ UNCHANGED <<now, appliedFrameRef, bindings, projected, lastCall, overlayRefs>>
    /\ OverlayFrame

(* runFlashLoop after its fetch: the answer is applied and refreshFusion hands
   the anchors of the stored result to updateAnchors with Date.now(); the
   finally block clears the pending flag. *)
FlashAnswer ==
    /\ pendingRef["flash"]
    /\ \E nextResult \in FlashResults :
          LET previousFlash == overlayRefs.flashResultRef
              stored == effectiveResult(previousFlash, nextResult)
              nextAnchors == buildFlashAnchors(<<stored>>)
          IN  /\ appliedFrameRef' = [appliedFrameRef EXCEPT !["flash"] = requestFrameRef["flash"]]
              /\ overlayRefs' =
                    [overlayRefs EXCEPT
                        !.flashResultRef = <<stored>>,
                        !.applied = <<[frameId |-> requestFrameRef["flash"],
                                       usable |-> hasUsableFlashEmotionPayload(nextResult)]>>]
              /\ bindings' = updateAnchors(engine, bindings, nextAnchors,
                                           overlayRefs.trackedFrameRef, now)
              /\ projected' = <<>>
              /\ lastCall' = [NoCall EXCEPT !.op = "update", !.anchors = nextAnchors,
                                            !.frame = overlayRefs.trackedFrameRef, !.at = now]
    /\ pendingRef' = [pendingRef EXCEPT !["flash"] = FALSE]
    /\ UNCHANGED <<now, requestFrameRef>>
    /\ OverlayFrame

(* The fetch fails or is answered with an error status: only the finally
   block runs. *)
FlashFails ==
    /\ pendingRef["flash"]
    /\ pendingRef' = [pendingRef EXCEPT !["flash"] = FALSE]
    /\ UNCHANGED <<now, requestFrameRef, appliedFrameRef, bindings, projected, lastCall,
                   overlayRefs>>
    /\ OverlayFrame

(* render(now): the tracker's frame is stored and drawOverlay(now) projects
   the bindings with the timestamp of the animation frame. *)
Render ==
    /\ \E tracked \in OverlayFrames :
          LET nowMs == performanceNow
              preserveStale == pendingRef["flash"]
              projectedAnchors == project(engine, bindings, tracked, nowMs, preserveStale)
          IN  /\ projected' = projectedAnchors
              /\ bindings' = projectKeeps(engine, bindings, nowMs, preserveStale)
              /\ lastCall' = [op |-> "project", anchors |-> <<>>, frame |-> tracked,
                              preserveStale |-> preserveStale, at |-> nowMs,
                              repeated |-> FALSE]
              /\ overlayRefs' =
                    [overlayRefs EXCEPT
                        !.trackedFrameRef = tracked,
                        !.visibleAnchors = visibleAnchors(projectedAnchors,
                                                          overlayRefs.flashResultRef)]
    /\ UNCHANGED <<now, pendingRef, requestFrameRef, appliedFrameRef>>
    /\ OverlayFrame

(* Time passes. *)
OverlayTick ==
    /\ now - StartTime < OverlayHorizon
    /\ \E step \in {ShortStep, LongStep} : now' = now + step
    /\ UNCHANGED <<pendingRef, requestFrameRef, appliedFrameRef, bindings, projected, lastCall,
                   overlayRefs>>
    /\ OverlayFrame

NextOverlay ==
    \/ FlashRequest
    \/ FlashAnswer
    \/ FlashFails
    \/ Render
    \/ OverlayTick

SpecOverlay == InitOverlayPage /\ [][NextOverlay]_vars

(* C38: in the overlay pipeline the timestamps handed to updateAnchors and to
   project come from the same clock: for every project call the age of every
   binding, the timestamp of the call minus lastSeenAt, is not negative. *)
C38_AgesNotNegative ==
    lastCall.op = "project" =>
        \A k \in DOMAIN bindings : lastCall.at - bindings[k].lastSeenAt >= 0

(* The step applies an answer of the mid lane. *)
AppliesFlash == overlayRefs'.applied # overlayRefs.applied

(* C39: a binding's lastSeenAt is refreshed only when an answer that itself
   holds the anchor is applied: applying an answer without usable emotions
   changes the lastSeenAt of no binding there was before it, so that anchors
   not reported again age and leave the overlay. *)
C39_UnusableAnswerRefreshesNothing ==
    [][(AppliesFlash /\ ~overlayRefs'.applied[1].usable) =>
          \A id \in BindingIds(bindings) \cap BindingIds(bindings') :
              BindingOf(bindings', id).lastSeenAt = BindingOf(bindings, id).lastSeenAt]_vars

====
